---- MODULE Spec2Model ----
(***************************************************************************)
(* Verification model of shp.js: the BitView bit-level accessors           *)
(* (src/BitView.ts), the compact codec compress / decompress               *)
(* (src/SHPCompress.ts) and the Shapefile reader SHPParser.parse           *)
(* (src/SHPParser.ts).                                                     *)
(*                                                                         *)
(* Buffers are sequences of bytes (0..255); byte k of an ArrayBuffer is    *)
(* element k+1 of the sequence.  Coordinates are exact fixed-point         *)
(* numbers: the integer n stands for n / Scale first-stage units, that is  *)
(* n * 180 / (32767 * Scale) degrees, so that x/180*32767 is n/Scale.      *)
(***************************************************************************)
EXTENDS Integers, Sequences, FiniteSets, TLC

VARIABLES
    bvBuf,      \* BitView.u8: the bytes behind the view
    bvPrev,     \* the bytes before the most recent write
    bvLog,      \* the writes made so far, oldest first: [kind, idx, val]
    bvGot,      \* the result of the most recent get*: [kind, idx, val]
    pc,         \* position of the compress / decompress pipeline
    shp,        \* the ShapefileData handed to compress
    zbuf,       \* the ArrayBuffer returned by compress
    dec,        \* the outcome of decompress: a model or an error
    arrayBuffer,\* the bytes handed to SHPParser.parse
    ppc,        \* position of parse: start, loop, returned or thrown
    cursor,     \* idx of parse: the byte the record loop is at
    parsed,     \* o of parse: the ShapefileData under construction
    thrown      \* the error parse has thrown, "" if none

bvVars == <<bvBuf, bvPrev, bvLog, bvGot>>
codecVars == <<pc, shp, zbuf, dec>>
parseVars == <<arrayBuffer, ppc, cursor, parsed, thrown>>
vars == <<bvBuf, bvPrev, bvLog, bvGot, pc, shp, zbuf, dec, arrayBuffer, ppc, cursor, parsed, thrown>>

(***************************************************************************)
(* Bounds of the model.                                                    *)
(***************************************************************************)
BufLen == 3         \* bytes in the BitView buffer under test
MaxWrites == 2      \* writes in a packed sequence of fields
MaxParsed == 3      \* records parse reads before the model stops following it

(***************************************************************************)
(* Values of the variables of a component that a specification leaves      *)
(* untouched.                                                              *)
(***************************************************************************)
NoOp == [kind |-> "none", idx |-> 0, val |-> 0]
NoModel == [shapeType |-> 0, fileCode |-> 0, version |-> 0, records |-> <<>>]
NoResult == [err |-> "pending"]
\* the double 0, which fills the fields of a model that are not there
Absent == [neg |-> FALSE, hi |-> 0, mid |-> 0, lo |-> 0]
NoParse ==
    [fileCode |-> 0, wordLength |-> 0, byteLength |-> 0, version |-> 0, shapeType |-> 0,
     minX |-> Absent, minY |-> Absent, maxX |-> Absent, maxY |-> Absent,
     minZ |-> Absent, maxZ |-> Absent, minM |-> Absent, maxM |-> Absent,
     records |-> <<>>]

(***************************************************************************)
(* JavaScript integer operators on the magnitudes the code uses (all       *)
(* intermediate values stay far below 2^31, so no 32-bit wrap occurs).     *)
(***************************************************************************)
RECURSIVE Pow2(_)
Pow2(n) == IF n <= 0 THEN 1 ELSE 2 * Pow2(n - 1)

\* x << n
Shl(x, n) == x * Pow2(n)

\* x >> n (arithmetic)
Shr(x, n) == x \div Pow2(n)

\* ~x
BitNot(x) == (-x) - 1

\* a & b on two's complement integers
RECURSIVE BitAnd(_, _)
BitAnd(a, b) ==
    IF a = 0 \/ b = 0 THEN 0
    ELSE IF a = -1 THEN b
    ELSE IF b = -1 THEN a
    ELSE 2 * BitAnd(a \div 2, b \div 2) + (a % 2) * (b % 2)

\* a | b
BitOr(a, b) == a + b - BitAnd(a, b)

Abs(x) == IF x < 0 THEN -x ELSE x
Min(a, b) == IF a < b THEN a ELSE b
Max(a, b) == IF a > b THEN a ELSE b

\* (v) | 0 and the typed-array conversion of a fraction num/den: toward zero
Trunc(num, den) == IF num >= 0 THEN num \div den ELSE -((-num) \div den)

\* Math.ceil(num/den) for num >= 0
CeilDiv(num, den) == (num + den - 1) \div den

(***************************************************************************)
(* Typed-array element access.  Reading past the end yields undefined,     *)
(* which every use below turns into 0 (`|| 0`, or `undefined & mask`);     *)
(* writing past the end is ignored; a stored value is reduced mod 256.     *)
(***************************************************************************)
U8Get(u8, i) == IF i >= 0 /\ i < Len(u8) THEN u8[i + 1] ELSE 0

U8Set(u8, i, v) ==
    IF i >= 0 /\ i < Len(u8)
    THEN SubSeq(u8, 1, i) \o <<v % 256>> \o SubSeq(u8, i + 2, Len(u8))
    ELSE u8

(***************************************************************************)
(* BitView                                                                 *)
(***************************************************************************)
getBit(u8, idx) ==
    LET v == U8Get(u8, Shr(idx, 3))
        off == BitAnd(idx, 7)
    IN  Shr(BitAnd(v, Shr(128, off)), 7 - off)

setBit(u8, idx, val) ==
    LET bidx == Shr(idx, 3)
        v == U8Get(u8, bidx)
        off == BitAnd(idx, 7)
    IN  IF val # 0
        THEN U8Set(u8, bidx, BitOr(v, Shr(128, off)))
        ELSE U8Set(u8, bidx, BitAnd(v, BitNot(Shr(128, off))))

getInt12(u8, idx) ==
    LET bidx == idx \div 8
        a == U8Get(u8, bidx)
        b == U8Get(u8, bidx + 1)
        c == U8Get(u8, bidx + 2)
        off == idx % 8
        abits == 8 - off
        bbits == Min(12 - abits, 8)
        cbits == Max(12 - abits - bbits, 0)
        am == BitNot(Shl(255, abits))
        bm == Shl(255, 8 - bbits)
        cm == Shl(255, 8 - cbits)
        maskedA == BitAnd(a, am)
        maskedB == BitAnd(b, bm)
        maskedC == BitAnd(c, cm)
    IN  Shr(Shl(maskedA, 16) + Shl(maskedB, 8) + maskedC, 12 - off) - 2048

\* setInt12 without the write into the third byte
setInt12TwoBytes(u8, idx, val0) ==
    LET val == val0 + 2048
        bidx == idx \div 8
        off == idx % 8
        v == Shl(val, 12 - off)
        a == Shr(BitAnd(v, 16711680), 16)
        b == Shr(BitAnd(v, 65280), 8)
        abits == 8 - off
        bbits == Min(12 - abits, 8)
        am == Shl(255, abits)
        bm == BitNot(Shl(255, 8 - bbits))
        u1 == U8Set(u8, bidx, BitAnd(U8Get(u8, bidx), am) + a)
    IN  U8Set(u1, bidx + 1, BitAnd(U8Get(u1, bidx + 1), bm) + b)

setInt12(u8, idx, val0) ==
    LET val == val0 + 2048
        bidx == idx \div 8
        off == idx % 8
        v == Shl(val, 12 - off)
        a == Shr(BitAnd(v, 16711680), 16)
        b == Shr(BitAnd(v, 65280), 8)
        c == BitAnd(v, 255)
        abits == 8 - off
        bbits == Min(12 - abits, 8)
        cbits == Max(12 - abits - bbits, 0)
        am == Shl(255, abits)
        bm == BitNot(Shl(255, 8 - bbits))
        cm == BitNot(Shl(255, 8 - cbits))
        u1 == U8Set(u8, bidx, BitAnd(U8Get(u8, bidx), am) + a)
        u2 == U8Set(u1, bidx + 1, BitAnd(U8Get(u1, bidx + 1), bm) + b)
    IN  U8Set(u2, bidx + 2, BitAnd(U8Get(u2, bidx + 2), cm) + c)

getInt6(u8, idx) ==
    LET bidx == idx \div 8
        a == U8Get(u8, bidx)
        b == U8Get(u8, bidx + 1)
        off == idx % 8
        abits == 8 - off
        bbits == Max(6 - abits, 0)
        am == BitNot(Shl(255, abits) + Shr(255, 8 - (2 - off)))
        bm == Shl(255, 8 - bbits)
        maskedA == BitAnd(a, am)
        maskedB == BitAnd(b, bm)
    IN  Shr(Shl(maskedA, 8) + maskedB, 10 - off) - 32

\* setInt6 whose first mask keeps only the bits in front of the field
setInt6HighMask(u8, idx, val0) ==
    LET val == val0 + 32
        bidx == idx \div 8
        off == idx % 8
        v == Shl(val, 10 - off)
        a == Shr(BitAnd(v, 65280), 8)
        b == BitAnd(v, 255)
        abits == 8 - off
        bbits == Max(6 - abits, 0)
        am == Shl(255, abits)
        bm == BitNot(Shl(255, 8 - bbits))
        u1 == U8Set(u8, bidx, BitAnd(U8Get(u8, bidx), am) + a)
    IN  U8Set(u1, bidx + 1, BitAnd(U8Get(u1, bidx + 1), bm) + b)

setInt6(u8, idx, val0) ==
    LET val == val0 + 32
        bidx == idx \div 8
        off == idx % 8
        v == Shl(val, 10 - off)
        a == Shr(BitAnd(v, 65280), 8)
        b == BitAnd(v, 255)
        abits == 8 - off
        bbits == Max(6 - abits, 0)
        am == Shl(255, abits) + Shr(255, 8 - (2 - off))
        bm == BitNot(Shl(255, 8 - bbits))
        u1 == U8Set(u8, bidx, BitAnd(U8Get(u8, bidx), am) + a)
    IN  U8Set(u1, bidx + 1, BitAnd(U8Get(u1, bidx + 1), bm) + b)

(***************************************************************************)
(* Shape types (ShapeType of SHPParser.ts).                                *)
(***************************************************************************)
NULL == 0
POINT == 1
POLYLINE == 3
POLYGON == 5
MULTIPOINT == 8
POINTZ == 11
POLYLINEZ == 13
POLYGONZ == 15
MULTIPOINTZ == 18
POINTM == 21
POLYLINEM == 23
POLYGONM == 25
MULTIPOINTM == 28
MULTIPATCH == 31

(***************************************************************************)
(* Sequences and DataView accessors.                                       *)
(***************************************************************************)
RECURSIVE Flatten(_)
Flatten(ss) == IF ss = <<>> THEN <<>> ELSE Head(ss) \o Flatten(Tail(ss))

RECURSIVE SumSeq(_)
SumSeq(q) == IF q = <<>> THEN 0 ELSE Head(q) + SumSeq(Tail(q))

\* the integers a, a+1, ..., b-1 in order
Upto(a, b) == [i \in 1..(b - a) |-> a + i - 1]

Zeros(n) == [i \in 1..n |-> 0]

\* ArrayBuffer.slice(from, to): both ends are clamped to the buffer
Slice(buf, from, to) == SubSeq(buf, Min(from, Len(buf)) + 1, Min(to, Len(buf)))

Bytes16LE(v) == <<v % 256, (v \div 256) % 256>>

Bytes32LE(v) == <<v % 256, (v \div 256) % 256, (v \div 65536) % 256, (v \div 16777216) % 256>>

Bytes32BE(v) == <<(v \div 16777216) % 256, (v \div 65536) % 256, (v \div 256) % 256, v % 256>>

GetUint16LE(buf, o) == buf[o + 1] + 256 * buf[o + 2]

\* values from 2^31 on do not occur in the buffers of the model
GetUint32LE(buf, o) == buf[o + 1] + 256 * buf[o + 2] + 65536 * buf[o + 3] + 16777216 * buf[o + 4]

GetUint32BE(buf, o) == buf[o + 4] + 256 * buf[o + 3] + 65536 * buf[o + 2] + 16777216 * buf[o + 1]

GetInt32LE(buf, o) ==
    buf[o + 1] + 256 * buf[o + 2] + 65536 * buf[o + 3]
        + 16777216 * (IF buf[o + 4] >= 128 THEN buf[o + 4] - 256 ELSE buf[o + 4])

GetInt32BE(buf, o) ==
    buf[o + 4] + 256 * buf[o + 3] + 65536 * buf[o + 2]
        + 16777216 * (IF buf[o + 1] >= 128 THEN buf[o + 1] - 256 ELSE buf[o + 1])

(***************************************************************************)
(* Float32Array.  The z and m values of the model are integers or NaN;     *)
(* ToFloat32 is the IEEE-754 single-precision encoding (round to nearest,  *)
(* ties to even), least significant byte first.                            *)
(***************************************************************************)
NaN == -2147483647

RECURSIVE Log2(_)
Log2(a) == IF a <= 1 THEN 0 ELSE 1 + Log2(a \div 2)

RoundHalfEven(a, d) ==
    LET q == a \div d
        r == a % d
    IN  IF 2 * r > d \/ (2 * r = d /\ q % 2 = 1) THEN q + 1 ELSE q

ToFloat32(v) ==
    IF v = NaN THEN <<0, 0, 192, 127>>
    ELSE IF v = 0 THEN <<0, 0, 0, 0>>
    ELSE LET s == IF v < 0 THEN 1 ELSE 0
             a == Abs(v)
             e0 == Log2(a)
             m0 == IF e0 <= 23 THEN a * Pow2(23 - e0) ELSE RoundHalfEven(a, Pow2(e0 - 23))
             e == IF m0 = 16777216 THEN e0 + 1 ELSE e0
             frac == IF m0 = 16777216 THEN 0 ELSE m0 - 8388608
             ex == e + 127
         IN  <<frac % 256, (frac \div 256) % 256, (ex % 2) * 128 + frac \div 65536, s * 128 + ex \div 2>>

FromFloat32(b) ==
    LET s == b[4] \div 128
        ex == (b[4] % 128) * 2 + b[3] \div 128
        frac == (b[3] % 128) * 65536 + b[2] * 256 + b[1]
        mag == IF ex >= 150 THEN (8388608 + frac) * Pow2(ex - 150)
               ELSE (8388608 + frac) \div Pow2(150 - ex)
    IN  IF ex = 255 THEN NaN
        ELSE IF ex = 0 THEN 0
        ELSE IF s = 1 THEN -mag ELSE mag

\* new Float32Array(values) seen as bytes
Float32Bytes(values) == Flatten([i \in 1..Len(values) |-> ToFloat32(values[i])])

(***************************************************************************)
(* compress (SHPCompress.ts)                                               *)
(***************************************************************************)
Scale == 2      \* model units per first-stage unit (see the header)

\* the M test without the Z types
IsMTypeOnly(t) == t \in {POLYGONM, POLYLINEM}

IsZType(t) == t = POLYGONZ \/ t = POLYLINEZ

IsMType(t) == IsZType(t) \/ t = POLYGONM \/ t = POLYLINEM

\* the record types compress stores geometry for
IsPolyType(t) == t \in {POLYGON, POLYLINE, POLYGONZ, POLYLINEZ, POLYGONM, POLYLINEM}

\* the shape type compress works with: the model's, or the first record's
\* the shape type always taken from the first record
EffectiveTypeFirst(m) ==
    IF Len(m.records) > 0 THEN m.records[1].type ELSE m.shapeType

\* the shape type never inferred
EffectiveTypeDeclared(m) == m.shapeType

EffectiveType(m) ==
    IF m.shapeType = 0 /\ Len(m.records) > 0 THEN m.records[1].type ELSE m.shapeType

\* element conversion of Int16Array
ToInt16(k) == ((k + 32768) % 65536) - 32768

\* the first stage rounding down
Quantize16Floor(n) == ToInt16(n \div Scale)

\* the first stage rounding to the nearest integer, halves away from zero
Quantize16Round(n) == ToInt16(Trunc(2 * n + (IF n >= 0 THEN Scale ELSE -Scale), 2 * Scale))

\* (x / 180) * 32767 stored into the Int16Array; n stands for n / Scale
Quantize16(n) == ToInt16(Trunc(n, Scale))

\* parts[k + 1] ?? points.length / 2    (k counts from 1 here)
\* the end of a part taken with || in place of ??
PartEndOr(rec, k) ==
    IF k < Len(rec.parts) /\ rec.parts[k + 1] # 0 THEN rec.parts[k + 1] ELSE Len(rec.points)

PartEnd(rec, k) == IF k < Len(rec.parts) THEN rec.parts[k + 1] ELSE Len(rec.points)

\* part lengths taken for every record that has parts, whatever its type
PartLengthsAnyType(rec) ==
    [k \in 1..Len(rec.parts) |-> PartEnd(rec, k) - rec.parts[k]]

PartLengths(rec) ==
    IF IsPolyType(rec.type)
    THEN [k \in 1..Len(rec.parts) |-> PartEnd(rec, k) - rec.parts[k]]
    ELSE <<>>

\* the indices j of the points compress visits in a record, in order
PointIndices(rec) ==
    IF IsPolyType(rec.type)
    THEN Flatten([k \in 1..Len(rec.parts) |-> Upto(rec.parts[k], PartEnd(rec, k))])
    ELSE <<>>

\* a typed-array read past the end is undefined and is stored as NaN
ValueAt(arr, j) == IF j >= 0 /\ j < Len(arr) THEN arr[j + 1] ELSE NaN

\* the pair pushed for point j; a NaN is stored as 0 in the Int16Array
QuantizedPoint(rec, j) ==
    IF j >= 0 /\ j < Len(rec.points)
    THEN <<Quantize16(rec.points[j + 1][1]), Quantize16(rec.points[j + 1][2])>>
    ELSE <<0, 0>>

RecordPolys(rec) ==
    LET js == PointIndices(rec)
    IN  Flatten([i \in 1..Len(js) |-> QuantizedPoint(rec, js[i])])

\* the stream with a terminator after the pairs of every record
Int16StreamPerRecord(m) ==
    Flatten([i \in 1..Len(m.records) |-> RecordPolys(m.records[i]) \o <<-32768>>])

\* the Int16Array handed to deltaEncode6: all pairs, then the terminator
Int16Stream(m) ==
    Flatten([i \in 1..Len(m.records) |-> RecordPolys(m.records[i])]) \o <<-32768>>

RecordZs(rec) ==
    LET js == PointIndices(rec)
    IN  IF rec.hasZ THEN [i \in 1..Len(js) |-> ValueAt(rec.z, js[i])] ELSE <<>>

RecordMs(rec) ==
    LET js == PointIndices(rec)
    IN  IF rec.hasM THEN [i \in 1..Len(js) |-> ValueAt(rec.m, js[i])] ELSE <<>>

\* first pass of deltaEncode6: quantize to the 12-bit range
\* the second stage done with an arithmetic shift
Quantize12Shift(arr) == [i \in 1..Len(arr) |-> arr[i] \div 16]

Quantize12(arr) == [i \in 1..Len(arr) |-> Trunc(arr[i], 16)]

\* the main loop of deltaEncode6 from position i (counted from 1)
\* the main loop with a delta threshold of 32
RECURSIVE EncodeLoop32(_, _, _)
EncodeLoop32(q, i, st) ==
    IF i > Len(q) THEN st
    ELSE IF q[i] = -2048
    THEN EncodeLoop32(q, i + 1,
            [st EXCEPT !.polys = Append(@, Append(st.spans, st.span)),
                       !.spans = <<>>, !.span = <<>>, !.byteLen = @ + 3])
    ELSE IF st.span = <<>>
    THEN EncodeLoop32(q, i + 2,
            [st EXCEPT !.x = q[i], !.y = q[i + 1],
                       !.span = <<q[i], q[i + 1]>>, !.byteLen = @ + 4])
    ELSE IF Abs(st.x - q[i]) > 32 \/ Abs(st.y - q[i + 1]) > 32
    THEN EncodeLoop32(q, i + 2,
            [st EXCEPT !.spans = Append(@, st.span),
                       !.x = q[i], !.y = q[i + 1],
                       !.span = <<q[i], q[i + 1]>>, !.byteLen = @ + 5])
    ELSE EncodeLoop32(q, i + 2,
            [st EXCEPT !.span = @ \o <<q[i] - st.x, q[i + 1] - st.y>>,
                       !.x = q[i], !.y = q[i + 1], !.byteLen = @ + 2])

RECURSIVE EncodeLoop(_, _, _)
EncodeLoop(q, i, st) ==
    IF i > Len(q) THEN st
    ELSE IF q[i] = -2048
    THEN EncodeLoop(q, i + 1,
            [st EXCEPT !.polys = Append(@, Append(st.spans, st.span)),
                       !.spans = <<>>, !.span = <<>>, !.byteLen = @ + 3])
    ELSE IF st.span = <<>>
    THEN EncodeLoop(q, i + 2,
            [st EXCEPT !.x = q[i], !.y = q[i + 1],
                       !.span = <<q[i], q[i + 1]>>, !.byteLen = @ + 4])
    ELSE IF Abs(st.x - q[i]) > 31 \/ Abs(st.y - q[i + 1]) > 31
    THEN EncodeLoop(q, i + 2,
            [st EXCEPT !.spans = Append(@, st.span),
                       !.x = q[i], !.y = q[i + 1],
                       !.span = <<q[i], q[i + 1]>>, !.byteLen = @ + 5])
    ELSE EncodeLoop(q, i + 2,
            [st EXCEPT !.span = @ \o <<q[i] - st.x, q[i + 1] - st.y>>,
                       !.x = q[i], !.y = q[i + 1], !.byteLen = @ + 2])

EncodeState(arr) ==
    EncodeLoop(Quantize12(arr), 1,
        [polys |-> <<>>, spans |-> <<>>, span |-> <<>>, x |-> 0, y |-> 0, byteLen |-> 0])

\* the fields storeDeltas6 writes for one span, in order: [w, val].  The two
\* anchors of an empty span are undefined: setInt12 turns them into the
\* stored value 0, which is what it stores for -2048.
SpanFields(span) ==
    IF span = <<>>
    THEN <<[w |-> 12, val |-> -2048], [w |-> 12, val |-> -2048], [w |-> 6, val |-> -32]>>
    ELSE <<[w |-> 12, val |-> span[1]], [w |-> 12, val |-> span[2]]>>
         \o [k \in 1..(Len(span) - 2) |-> [w |-> 6, val |-> span[k + 2]]]
         \o <<[w |-> 6, val |-> -32]>>

PolyFields(spans) ==
    Flatten([j \in 1..Len(spans) |-> SpanFields(spans[j])]) \o <<[w |-> 12, val |-> -2048]>>

AllFields(polys) == Flatten([i \in 1..Len(polys) |-> PolyFields(polys[i])])

\* the writes of storeDeltas6 from field k on, idx being the bit cursor
RECURSIVE StoreFields(_, _, _, _)
StoreFields(u8, fields, k, idx) ==
    IF k > Len(fields) THEN [u8 |-> u8, idx |-> idx]
    ELSE CHOOSE r \in { StoreFields(b, fields, k + 1, idx + fields[k].w) :
                         b \in { IF fields[k].w = 12 THEN setInt12(u8, idx, fields[k].val)
                                                     ELSE setInt6(u8, idx, fields[k].val) } } : TRUE

\* the bit length stored least significant byte first
storeDeltas6LengthLE(byteLen, polys) ==
    LET buf == Zeros(CeilDiv(byteLen * 3, 4) + 4)
        r == StoreFields(buf, AllFields(polys), 1, 32)
    IN  Bytes32LE(r.idx) \o SubSeq(r.u8, 5, Len(r.u8))

storeDeltas6(byteLen, polys) ==
    LET buf == Zeros(CeilDiv(byteLen * 3, 4) + 4)
        r == StoreFields(buf, AllFields(polys), 1, 32)
    IN  Bytes32BE(r.idx) \o SubSeq(r.u8, 5, Len(r.u8))

deltaEncode6(arr) ==
    LET st == EncodeState(arr)
    IN  storeDeltas6(st.byteLen, st.polys)

\* the part-length table: per record a uint16 count and uint32 lengths
RecordMetadata(m) == [i \in 1..Len(m.records) |-> PartLengths(m.records[i])]

\* the table written with a part count four bytes wide
MetadataBytesWideCount(meta) ==
    Flatten([i \in 1..Len(meta) |->
        Bytes32LE(Len(meta[i])) \o Flatten([k \in 1..Len(meta[i]) |-> Bytes32LE(meta[i][k])])])

MetadataBytes(meta) ==
    Flatten([i \in 1..Len(meta) |->
        Bytes16LE(Len(meta[i])) \o Flatten([k \in 1..Len(meta[i]) |-> Bytes32LE(meta[i][k])])])

compress(m) ==
    LET shapeType == EffectiveType(m)
        isZ == IsZType(shapeType)
        isM == IsMType(shapeType)
        zs == IF isZ THEN Flatten([i \in 1..Len(m.records) |-> RecordZs(m.records[i])]) ELSE <<>>
        ms == IF isM THEN Flatten([i \in 1..Len(m.records) |-> RecordMs(m.records[i])]) ELSE <<>>
        compressedPoints == deltaEncode6(Int16Stream(m))
    IN  <<IF isZ \/ isM THEN 2 ELSE 1, shapeType % 256>>
        \o Bytes32LE(Len(m.records))
        \o Bytes32LE(IF m.fileCode = 0 THEN 9994 ELSE m.fileCode)
        \o Bytes32LE(IF m.version = 0 THEN 1000 ELSE m.version)
        \o MetadataBytes(RecordMetadata(m))
        \o compressedPoints
        \o Float32Bytes(zs)
        \o Float32Bytes(ms)

(***************************************************************************)
(* decompress (SHPCompress.ts)                                             *)
(***************************************************************************)
\* Infinity and -Infinity: beyond every coordinate and value of the model
Infinity == 1000000000
NegInfinity == -1000000000

\* Math.min and Math.max over values that may be NaN
MathMin(a, b) == IF a = NaN \/ b = NaN THEN NaN ELSE Min(a, b)
MathMax(a, b) == IF a = NaN \/ b = NaN THEN NaN ELSE Max(a, b)

RECURSIVE MinOf(_, _)
MinOf(q, acc) == IF q = <<>> THEN acc ELSE MinOf(Tail(q), MathMin(acc, Head(q)))

RECURSIVE MaxOf(_, _)
MaxOf(q, acc) == IF q = <<>> THEN acc ELSE MaxOf(Tail(q), MathMax(acc, Head(q)))

\* the inner loop of deltaDecode6: the 6-bit deltas of one span
RECURSIVE DecodeSpan(_, _, _, _, _, _)
DecodeSpan(u8, bitLength, idx, x, y, polys) ==
    IF idx >= bitLength THEN [idx |-> idx, polys |-> polys]
    ELSE LET dx == getInt6(u8, idx)
         IN  IF dx = -32 THEN [idx |-> idx + 6, polys |-> polys]
             ELSE LET dy == getInt6(u8, idx + 6)
                  IN  DecodeSpan(u8, bitLength, idx + 12, x + dx, y + dy,
                                 polys \o <<x + dx, y + dy>>)

\* the outer loop of deltaDecode6
RECURSIVE DecodeLoop(_, _, _, _)
DecodeLoop(u8, bitLength, idx, polys) ==
    IF idx >= bitLength THEN polys
    ELSE LET x == getInt12(u8, idx)
         IN  IF x = -2048 THEN DecodeLoop(u8, bitLength, idx + 12, Append(polys, -2048))
             ELSE LET y == getInt12(u8, idx + 12)
                      r == DecodeSpan(u8, bitLength, idx + 24, x, y, polys \o <<x, y>>)
                  IN  DecodeLoop(u8, bitLength, r.idx, r.polys)

\* deltaDecode6 of a buffer of at least 4 bytes
deltaDecode6(buf) ==
    LET polys == DecodeLoop(buf, GetUint32BE(buf, 0), 32, <<>>)
    IN  [i \in 1..Len(polys) |-> polys[i] * 16]

\* the part-length table: n records from byte offset on; ok is FALSE when a
\* read leaves the buffer (DataView throws a RangeError)
RECURSIVE ReadLengths(_, _, _, _)
ReadLengths(buf, offset, n, acc) ==
    IF n = 0 THEN [ok |-> TRUE, offset |-> offset, parts |-> acc]
    ELSE IF offset + 4 > Len(buf) THEN [ok |-> FALSE, offset |-> offset, parts |-> acc]
    ELSE ReadLengths(buf, offset + 4, n - 1, Append(acc, GetUint32LE(buf, offset)))

RECURSIVE ReadTable(_, _, _, _)
ReadTable(buf, offset, n, acc) ==
    IF n = 0 THEN [ok |-> TRUE, offset |-> offset, recordParts |-> acc]
    ELSE IF offset + 2 > Len(buf) THEN [ok |-> FALSE, offset |-> offset, recordParts |-> acc]
    ELSE LET r == ReadLengths(buf, offset + 2, GetUint16LE(buf, offset), <<>>)
         IN  IF ~r.ok THEN [ok |-> FALSE, offset |-> r.offset, recordParts |-> acc]
             ELSE ReadTable(buf, r.offset, n - 1, Append(acc, r.parts))

\* new Float32Array(bytes) as values
Float32Values(bytes) ==
    [i \in 1..(Len(bytes) \div 4) |-> FromFloat32(SubSeq(bytes, 4 * i - 3, 4 * i))]

\* part starts pushed after the length is added: the end of each part
PartStartsAfter(partLengths) ==
    [k \in 1..Len(partLengths) |-> SumSeq(SubSeq(partLengths, 1, k))]

\* running sums: the offset of each part among the points of its record
PartStarts(partLengths) ==
    [k \in 1..Len(partLengths) |-> SumSeq(SubSeq(partLengths, 1, k - 1))]

\* a Null record given the number of the loop index i - 1
NullRecordFromZero(i) ==
    [number |-> i - 1, length |-> 2, type |-> NULL, content |-> FALSE,
     parts |-> <<>>, points |-> <<>>,
     minX |-> 0, minY |-> 0, maxX |-> 0, maxY |-> 0,
     hasZ |-> FALSE, z |-> <<>>, minZ |-> 0, maxZ |-> 0,
     hasM |-> FALSE, m |-> <<>>, minM |-> 0, maxM |-> 0]

NullRecord(i) ==
    [number |-> i, length |-> 2, type |-> NULL, content |-> FALSE,
     parts |-> <<>>, points |-> <<>>,
     minX |-> 0, minY |-> 0, maxX |-> 0, maxY |-> 0,
     hasZ |-> FALSE, z |-> <<>>, minZ |-> 0, maxZ |-> 0,
     hasM |-> FALSE, m |-> <<>>, minM |-> 0, maxM |-> 0]

\* one non-empty entry of the table rebuilt as record number i; first is the
\* number of points taken by the records before it.  A coordinate
\* value / 32767 * 180 degrees is value * Scale in model units.
PolyRecord(i, shapeType, partLengths, flatPoints, first, hasZ, zs, hasM, ms) ==
    LET n == SumSeq(partLengths)
        xs == [k \in 1..n |-> flatPoints[2 * (first + k) - 1] * Scale]
        ys == [k \in 1..n |-> flatPoints[2 * (first + k)] * Scale]
        zValues == IF hasZ THEN [k \in 1..n |-> ValueAt(zs, first + k - 1)] ELSE <<>>
        mValues == IF hasM THEN [k \in 1..n |-> ValueAt(ms, first + k - 1)] ELSE <<>>
        contentBytes == 44 + Len(partLengths) * 4 + (2 * n) * 8
                           + (IF hasZ THEN 16 + n * 8 ELSE 0)
                           + (IF hasM THEN 16 + n * 8 ELSE 0)
    IN  [number |-> i, length |-> contentBytes \div 2, type |-> shapeType, content |-> TRUE,
         parts |-> PartStarts(partLengths),
         points |-> [k \in 1..n |-> <<xs[k], ys[k]>>],
         minX |-> MinOf(xs, Infinity), minY |-> MinOf(ys, Infinity),
         maxX |-> MaxOf(xs, NegInfinity), maxY |-> MaxOf(ys, NegInfinity),
         hasZ |-> hasZ, z |-> zValues,
         minZ |-> MinOf(zValues, Infinity), maxZ |-> MaxOf(zValues, NegInfinity),
         hasM |-> hasM, m |-> mValues,
         minM |-> MinOf(mValues, Infinity), maxM |-> MaxOf(mValues, NegInfinity)]

\* the record loop of decompress from record i on; ok is FALSE when the
\* point data ends early ('Unexpected end of point data')
RECURSIVE Reconstruct(_, _, _, _, _, _, _, _, _)
Reconstruct(i, shapeType, recordParts, flatPoints, first, hasZ, zs, hasM, ms) ==
    IF i > Len(recordParts) THEN [ok |-> TRUE, records |-> <<>>]
    ELSE IF recordParts[i] = <<>>
    THEN LET rest == Reconstruct(i + 1, shapeType, recordParts, flatPoints, first, hasZ, zs, hasM, ms)
         IN  [ok |-> rest.ok, records |-> <<NullRecord(i)>> \o rest.records]
    ELSE LET n == SumSeq(recordParts[i])
         IN  IF n > 0 /\ 2 * (first + n) - 1 >= Len(flatPoints)
             THEN [ok |-> FALSE, records |-> <<>>]
             ELSE LET rest == Reconstruct(i + 1, shapeType, recordParts, flatPoints,
                                          first + n, hasZ, zs, hasM, ms)
                  IN  [ok |-> rest.ok,
                       records |-> <<PolyRecord(i, shapeType, recordParts[i], flatPoints,
                                                first, hasZ, zs, hasM, ms)>> \o rest.records]

\* 8 + content bytes of the records
RECURSIVE RecordsBytes(_)
RecordsBytes(records) ==
    IF records = <<>> THEN 0 ELSE 8 + 2 * Head(records).length + RecordsBytes(Tail(records))

\* the bounds over the records that have content
\* only the last record with content
ContentLast(records) ==
    LET c == SelectSeq(records, LAMBDA r : r.content)
    IN  IF c = <<>> THEN <<>> ELSE <<c[Len(c)]>>

Content(records) == SelectSeq(records, LAMBDA r : r.content)

\* a file-level bound: reset to 0 when the minimum it goes with is still Infinity
FileBound(minimum, bound) == IF minimum = Infinity THEN 0 ELSE bound

\* one field of every record of a sequence
Field(records, f) == [k \in 1..Len(records) |-> records[k][f]]

Failure(e) == [err |-> e]

\* a version check that lets the next version number through
SupportedVersionUpTo3(version) == version >= 1 /\ version <= 3

\* the versions decompress accepts
SupportedVersion(version) == version = 1 \/ version = 2

decompress(buffer) ==
    IF Len(buffer) < 1 THEN Failure("range")
    ELSE IF ~SupportedVersion(buffer[1]) THEN Failure("version")
    ELSE IF Len(buffer) < 14 THEN Failure("range")
    ELSE
    LET version == buffer[1]
        shapeType == buffer[2]
        recordCount == GetUint32LE(buffer, 2)
        table == ReadTable(buffer, 14, recordCount, <<>>)
    IN  IF ~table.ok THEN Failure("range")
        ELSE
        LET compressedPointsBuffer == Slice(buffer, table.offset, Len(buffer))
        IN  IF Len(compressedPointsBuffer) < 4 THEN Failure("range")
            ELSE
            LET flatPoints == deltaDecode6(compressedPointsBuffer)
                bitLength == GetUint32BE(compressedPointsBuffer, 0)
                offset == table.offset + CeilDiv(bitLength, 8)
                totalPoints == SumSeq(Flatten(table.recordParts))
                hasZ == version = 2 /\ IsZType(shapeType)
                hasM == version = 2 /\ IsMType(shapeType)
                zBytes == IF hasZ THEN Slice(buffer, offset, offset + totalPoints * 4) ELSE <<>>
                mOffset == IF hasZ THEN offset + totalPoints * 4 ELSE offset
                mBytes == IF hasM THEN Slice(buffer, mOffset, mOffset + totalPoints * 4) ELSE <<>>
            IN  IF Len(zBytes) % 4 # 0 \/ Len(mBytes) % 4 # 0 THEN Failure("range")
                ELSE
                LET r == Reconstruct(1, shapeType, table.recordParts, flatPoints, 0,
                                     hasZ, Float32Values(zBytes), hasM, Float32Values(mBytes))
                    c == Content(r.records)
                    zc == Field(IF hasZ THEN c ELSE <<>>, "minZ")
                    mc == Field(IF hasM THEN c ELSE <<>>, "minM")
                    fileLengthBytes == 100 + RecordsBytes(r.records)
                IN  IF ~r.ok THEN Failure("eof")
                    ELSE [err |-> "none",
                          fileCode |-> GetInt32LE(buffer, 6),
                          wordLength |-> fileLengthBytes \div 2,
                          byteLength |-> fileLengthBytes,
                          version |-> GetInt32LE(buffer, 10),
                          shapeType |-> shapeType,
                          minX |-> FileBound(MinOf(Field(c, "minX"), Infinity), MinOf(Field(c, "minX"), Infinity)),
                          minY |-> FileBound(MinOf(Field(c, "minX"), Infinity), MinOf(Field(c, "minY"), Infinity)),
                          maxX |-> FileBound(MinOf(Field(c, "minX"), Infinity), MaxOf(Field(c, "maxX"), NegInfinity)),
                          maxY |-> FileBound(MinOf(Field(c, "minX"), Infinity), MaxOf(Field(c, "maxY"), NegInfinity)),
                          minZ |-> FileBound(MinOf(zc, Infinity), MinOf(zc, Infinity)),
                          maxZ |-> FileBound(MinOf(zc, Infinity), MaxOf(Field(IF hasZ THEN c ELSE <<>>, "maxZ"), NegInfinity)),
                          minM |-> FileBound(MinOf(mc, Infinity), MinOf(mc, Infinity)),
                          maxM |-> FileBound(MinOf(mc, Infinity), MaxOf(Field(IF hasM THEN c ELSE <<>>, "maxM"), NegInfinity)),
                          records |-> r.records]

(***************************************************************************)
(* The models handed to compress.                                          *)
(***************************************************************************)
MaxRecords == 2         \* records in a model of varied structure
MaxStreamPoints == 3    \* points in a model of varied coordinates

\* one 12-bit step in model units
Step == 16 * Scale

\* the j-th point of catalogue entry e: distinct for distinct (e, j), inside
\* [-180,180] x [-90,90] and off the quantization grid
CatalogPoint(e, j) == <<(4 * e + j) * Step + 1, -((e + 2 * j) * Step + 1)>>

\* 16777217 is not a single-precision number
CatalogZ(e, j) == IF j = 1 THEN 16777217 ELSE 100 * e + j

CatalogM(e, j) == -(10 * e + j)

CatalogRecord(e, type, parts, n, hasZ, hasM) ==
    [type |-> type, parts |-> parts,
     points |-> [j \in 1..n |-> CatalogPoint(e, j)],
     hasZ |-> hasZ, z |-> IF hasZ THEN [j \in 1..n |-> CatalogZ(e, j)] ELSE <<>>,
     hasM |-> hasM, m |-> IF hasM THEN [j \in 1..n |-> CatalogM(e, j)] ELSE <<>>]

RecordCatalog ==
    { CatalogRecord(1, NULL, <<>>, 0, FALSE, FALSE),
      CatalogRecord(2, POLYGON, <<0>>, 2, FALSE, FALSE),
      CatalogRecord(3, POLYGON, <<0, 1>>, 3, FALSE, FALSE),
      CatalogRecord(4, POLYGON, <<1>>, 2, FALSE, FALSE),
      CatalogRecord(5, POLYGON, <<>>, 1, FALSE, FALSE),
      CatalogRecord(6, POLYGON, <<0, 0>>, 1, FALSE, FALSE),
      CatalogRecord(7, POLYGON, <<0>>, 0, FALSE, FALSE),
      CatalogRecord(8, POLYGONZ, <<0>>, 2, TRUE, TRUE),
      CatalogRecord(9, POLYGONZ, <<0>>, 1, FALSE, FALSE),
      CatalogRecord(10, POLYLINEM, <<0, 1>>, 2, FALSE, TRUE),
      CatalogRecord(11, MULTIPOINT, <<>>, 2, FALSE, FALSE),
      CatalogRecord(12, POINT, <<>>, 1, FALSE, FALSE),
      CatalogRecord(13, MULTIPATCH, <<0>>, 2, TRUE, TRUE),
      CatalogRecord(14, POLYGONZ, <<1>>, 2, TRUE, TRUE) }

ShapeTypes == {NULL, POLYGON, POLYGONZ, POLYLINEM, MULTIPOINT, MULTIPATCH}

\* coordinates: the origin, values that truncate toward zero from both
\* sides, deltas of exactly 31 and of 32 steps, the corners of the valid
\* range, and an x just beyond 180 degrees
PointChoices ==
    { <<0, 0>>,
      <<17 * Scale + 1, -(32 * Scale - 1)>>,
      <<31 * Step, -30 * Step>>,
      <<31 * Step, 32 * Step>>,
      <<32767 * Scale, (32767 * Scale) \div 2>>,
      <<-32767 * Scale, -((32767 * Scale) \div 2)>>,
      <<32768 * Scale, 0>> }

SeqsUpTo(S, n) == UNION { [1..k -> S] : k \in 0..n }

StructModels ==
    { [shapeType |-> t, fileCode |-> 9994, version |-> 1000, records |-> rs] :
        t \in ShapeTypes, rs \in SeqsUpTo(RecordCatalog, MaxRecords) }

StreamModels ==
    { [shapeType |-> POLYGON, fileCode |-> 9994, version |-> 1000,
       records |-> << [type |-> POLYGON, parts |-> <<0>>, points |-> ps,
                       hasZ |-> FALSE, z |-> <<>>, hasM |-> FALSE, m |-> <<>>] >>] :
        ps \in SeqsUpTo(PointChoices, MaxStreamPoints) }

HeaderModels ==
    { [shapeType |-> POLYLINE, fileCode |-> fc, version |-> v,
       records |-> << CatalogRecord(2, POLYLINE, <<0>>, 2, FALSE, FALSE) >>] :
        fc \in {0, 9994, -2}, v \in {0, 1000, 70000} }

Models == StructModels \cup StreamModels \cup HeaderModels

InitCodec ==
    /\ shp \in Models
    /\ pc = "ready"
    /\ zbuf = <<>>
    /\ dec = NoResult
    /\ bvBuf = <<>>
    /\ bvPrev = <<>>
    /\ bvLog = <<>>
    /\ bvGot = NoOp
    /\ arrayBuffer = <<>>
    /\ ppc = "idle"
    /\ cursor = 0
    /\ parsed = NoParse
    /\ thrown = ""

Compress ==
    /\ pc = "ready"
    /\ zbuf' = compress(shp)
    /\ pc' = "compressed"
    /\ UNCHANGED <<shp, dec>>
    /\ UNCHANGED bvVars
    /\ UNCHANGED parseVars

Decompress ==
    /\ pc \in {"compressed", "received"}
    /\ dec' = decompress(zbuf)
    /\ pc' = IF dec'.err = "none" THEN "done" ELSE "failed"
    /\ UNCHANGED <<shp, zbuf>>
    /\ UNCHANGED bvVars
    /\ UNCHANGED parseVars

NextCodec == Compress \/ Decompress

SpecCodec == InitCodec /\ [][NextCodec]_vars

(***************************************************************************)
(* Compact buffers that reach decompress damaged: cut short at some byte,  *)
(* or with another value in the version byte.                              *)
(***************************************************************************)
\* models of at most one record of every structure, and a two-record Z model
WireModels ==
    { [shapeType |-> t, fileCode |-> 9994, version |-> 1000, records |-> rs] :
        t \in ShapeTypes, rs \in SeqsUpTo(RecordCatalog, 1) }
    \cup { [shapeType |-> POLYGONZ, fileCode |-> 9994, version |-> 1000,
            records |-> << CatalogRecord(8, POLYGONZ, <<0>>, 2, TRUE, TRUE),
                           CatalogRecord(3, POLYGONZ, <<0, 1>>, 3, TRUE, TRUE) >>] }

\* values of the version byte that are not a version
BadVersions == {0, 3, 255}

InitWire ==
    /\ shp \in WireModels
    /\ pc = "ready"
    /\ zbuf = <<>>
    /\ dec = NoResult
    /\ bvBuf = <<>>
    /\ bvPrev = <<>>
    /\ bvLog = <<>>
    /\ bvGot = NoOp
    /\ arrayBuffer = <<>>
    /\ ppc = "idle"
    /\ cursor = 0
    /\ parsed = NoParse
    /\ thrown = ""

Receive(buffer) ==
    /\ zbuf' = buffer
    /\ pc' = "received"
    /\ UNCHANGED <<shp, dec>>
    /\ UNCHANGED bvVars
    /\ UNCHANGED parseVars

\* the buffer loses its end: the first n bytes arrive
Truncate ==
    /\ pc = "compressed"
    /\ \E n \in 0..(Len(zbuf) - 1) : Receive(SubSeq(zbuf, 1, n))

\* the version byte holds another value; the n bytes after it arrive
Retag ==
    /\ pc = "compressed"
    /\ \E v \in BadVersions, n \in {0, 1, 12, 13, Len(zbuf) - 1} :
          Receive(<<v>> \o SubSeq(zbuf, 2, n + 1))

NextWire == Compress \/ Truncate \/ Retag \/ Decompress

SpecWire == InitWire /\ [][NextWire]_vars

(***************************************************************************)
(* SHPParser.parse (src/SHPParser.ts).  A double is kept as the bits of    *)
(* its IEEE-754 encoding: the sign, the upper 31 bits of the magnitude     *)
(* (exponent and the first 20 fraction bits) and the lower 32 fraction     *)
(* bits in two halves.  The order of doubles is the order of these bits,   *)
(* so clamp is computed exactly.                                           *)
(***************************************************************************)
\* a DataView read of n bytes at byte i lies inside the buffer
InView(dv, i, n) == i >= 0 /\ i + n <= Len(dv)

\* DataView.getFloat64(i, true)
getFloat64(dv, i) ==
    [neg |-> dv[i + 8] >= 128,
     hi |-> (dv[i + 8] % 128) * 16777216 + dv[i + 7] * 65536 + dv[i + 6] * 256 + dv[i + 5],
     mid |-> dv[i + 4] * 256 + dv[i + 3],
     lo |-> dv[i + 2] * 256 + dv[i + 1]]

\* the double equal to the integer k, for |k| < 2^21
Float64(k) ==
    IF k = 0 THEN [neg |-> FALSE, hi |-> 0, mid |-> 0, lo |-> 0]
    ELSE LET e == Log2(Abs(k))
         IN  [neg |-> k < 0,
              hi |-> (1023 + e) * 1048576 + (Abs(k) - Pow2(e)) * Pow2(20 - e),
              mid |-> 0, lo |-> 0]

\* the eight bytes of a double, least significant first
Float64Bytes(d) ==
    <<d.lo % 256, d.lo \div 256, d.mid % 256, d.mid \div 256,
      d.hi % 256, (d.hi \div 256) % 256, (d.hi \div 65536) % 256,
      d.hi \div 16777216 + (IF d.neg THEN 128 ELSE 0)>>

Float64IsNaN(d) == d.hi >= 2146435072 /\ (d.hi > 2146435072 \/ d.mid # 0 \/ d.lo # 0)

Float64IsZero(d) == d.hi = 0 /\ d.mid = 0 /\ d.lo = 0

MagnitudeLess(a, b) ==
    \/ a.hi < b.hi
    \/ a.hi = b.hi /\ a.mid < b.mid
    \/ a.hi = b.hi /\ a.mid = b.mid /\ a.lo < b.lo

\* a < b on doubles that are not NaN
Float64Less(a, b) ==
    IF Float64IsZero(a) /\ Float64IsZero(b) THEN FALSE
    ELSE IF a.neg # b.neg THEN a.neg
    ELSE IF a.neg THEN MagnitudeLess(b, a)
    ELSE MagnitudeLess(a, b)

\* Math.max and Math.min of two doubles: NaN if either is NaN
Float64Max(a, b) ==
    IF Float64IsNaN(a) THEN a ELSE IF Float64IsNaN(b) THEN b
    ELSE IF Float64Less(a, b) THEN b ELSE a

Float64Min(a, b) ==
    IF Float64IsNaN(a) THEN a ELSE IF Float64IsNaN(b) THEN b
    ELSE IF Float64Less(b, a) THEN b ELSE a

clamp(value, min, max) == Float64Min(Float64Max(value, min), max)

clampX(dv, i) == clamp(getFloat64(dv, i), Float64(-180), Float64(180))

clampY(dv, i) == clamp(getFloat64(dv, i), Float64(-90), Float64(90))

\* the content of a shape; a field the variant does not have is absent
\* (has* is FALSE) and holds the filler Absent
NoContent ==
    [kind |-> "none", x |-> Absent, y |-> Absent, z |-> Absent, m |-> Absent,
     minX |-> Absent, minY |-> Absent, maxX |-> Absent, maxY |-> Absent,
     parts |-> <<>>, hasPartTypes |-> FALSE, partTypes |-> <<>>, points |-> <<>>,
     hasZ |-> FALSE, minZ |-> Absent, maxZ |-> Absent, zs |-> <<>>,
     hasM |-> FALSE, minM |-> Absent, maxM |-> Absent, ms |-> <<>>]

NullShape == [type |-> NULL, content |-> NoContent]

\* what parseShape does: return a shape or throw
Returned(shape) == [thrown |-> FALSE, shape |-> shape]
Thrown == [thrown |-> TRUE, shape |-> NullShape]

Float64Array(dv, at, n) == [k \in 1..n |-> getFloat64(dv, at + 8 * (k - 1))]

Int32Array(dv, at, n) == [k \in 1..n |-> GetInt32LE(dv, at + 4 * (k - 1))]

ClampedPoints(dv, at, n) ==
    [k \in 1..n |-> <<clampX(dv, at + 16 * (k - 1)), clampY(dv, at + 16 * (k - 1) + 8)>>]

PointShape(dv, type, at) ==
    LET hasZ == type = POINTZ
        hasM == type \in {POINTZ, POINTM}
        mAt == IF hasZ THEN at + 24 ELSE at + 16
        size == IF hasZ THEN 32 ELSE IF hasM THEN 24 ELSE 16
    IN  IF ~InView(dv, at, size) THEN Thrown
        ELSE Returned([type |-> type,
                content |-> [NoContent EXCEPT
                    !.kind = "point",
                    !.x = clampX(dv, at), !.y = clampY(dv, at + 8),
                    !.hasZ = hasZ, !.z = IF hasZ THEN getFloat64(dv, at + 16) ELSE Absent,
                    !.hasM = hasM, !.m = IF hasM THEN getFloat64(dv, mAt) ELSE Absent]])

\* The content of a poly or multipoint shape whose counts were read: the
\* typed arrays cannot be built with a negative count, and the reads run
\* through consecutive bytes from at to the end of the last array, so one of
\* them throws exactly when that end lies beyond the buffer.
PolyBody(dv, type, at, fixed, partCount, pointCount, hasPartTypes, hasZ, hasM) ==
    LET partsAt == at + fixed
        partTypesAt == partsAt + 4 * partCount
        pointsAt == partTypesAt + (IF hasPartTypes THEN 4 * partCount ELSE 0)
        zAt == pointsAt + 16 * pointCount
        mAt == zAt + (IF hasZ THEN 16 + 8 * pointCount ELSE 0)
        end == mAt + (IF hasM THEN 16 + 8 * pointCount ELSE 0)
    IN  IF partCount < 0 \/ pointCount < 0 THEN Thrown
        ELSE IF partCount > Len(dv) \/ pointCount > Len(dv) THEN Thrown
        ELSE IF end > Len(dv) THEN Thrown
        ELSE Returned([type |-> type,
                content |-> [NoContent EXCEPT
                    !.kind = "poly",
                    !.minX = clampX(dv, at), !.minY = clampY(dv, at + 8),
                    !.maxX = clampX(dv, at + 16), !.maxY = clampY(dv, at + 24),
                    !.parts = Int32Array(dv, partsAt, partCount),
                    !.hasPartTypes = hasPartTypes,
                    !.partTypes = IF hasPartTypes THEN Int32Array(dv, partTypesAt, partCount)
                                  ELSE <<>>,
                    !.points = ClampedPoints(dv, pointsAt, pointCount),
                    !.hasZ = hasZ,
                    !.minZ = IF hasZ THEN getFloat64(dv, zAt) ELSE Absent,
                    !.maxZ = IF hasZ THEN getFloat64(dv, zAt + 8) ELSE Absent,
                    !.zs = IF hasZ THEN Float64Array(dv, zAt + 16, pointCount) ELSE <<>>,
                    !.hasM = hasM,
                    !.minM = IF hasM THEN getFloat64(dv, mAt) ELSE Absent,
                    !.maxM = IF hasM THEN getFloat64(dv, mAt + 8) ELSE Absent,
                    !.ms = IF hasM THEN Float64Array(dv, mAt + 16, pointCount) ELSE <<>>]])

\* a poly shape read with no z block for MultiPatch
PolyShapePatchWithoutZ(dv, type, at) ==
    IF ~InView(dv, at + 32, 8) THEN Thrown
    ELSE PolyBody(dv, type, at, 40, GetInt32LE(dv, at + 32), GetInt32LE(dv, at + 36),
            type = MULTIPATCH,
            type \in {POLYLINEZ, POLYGONZ},
            type \in {POLYLINEZ, POLYGONZ, POLYLINEM, POLYGONM, MULTIPATCH})

PolyShape(dv, type, at) ==
    IF ~InView(dv, at + 32, 8) THEN Thrown
    ELSE PolyBody(dv, type, at, 40, GetInt32LE(dv, at + 32), GetInt32LE(dv, at + 36),
            type = MULTIPATCH,
            type \in {POLYLINEZ, POLYGONZ, MULTIPATCH},
            type \in {POLYLINEZ, POLYGONZ, POLYLINEM, POLYGONM, MULTIPATCH})

MultiPointShape(dv, type, at) ==
    IF ~InView(dv, at + 32, 4) THEN Thrown
    ELSE PolyBody(dv, type, at, 36, 0, GetInt32LE(dv, at + 32),
            FALSE,
            type = MULTIPOINTZ,
            type \in {MULTIPOINTZ, MULTIPOINTM})

\* parseShape(dv, idx, length); the length is not used
parseShape(dv, at, length) ==
    IF ~InView(dv, at, 4) THEN Thrown
    ELSE LET type == GetInt32LE(dv, at)
         IN  IF type = NULL THEN Returned(NullShape)
             ELSE IF type \in {POINT, POINTZ, POINTM} THEN PointShape(dv, type, at + 4)
             ELSE IF type \in {POLYLINE, POLYGON, POLYLINEZ, POLYGONZ,
                               POLYLINEM, POLYGONM, MULTIPATCH}
             THEN PolyShape(dv, type, at + 4)
             ELSE IF type \in {MULTIPOINT, MULTIPOINTZ, MULTIPOINTM}
             THEN MultiPointShape(dv, type, at + 4)
             ELSE Thrown

\* the file code read least significant byte first
FileCodeLE(dv) == GetInt32LE(dv, 0)

\* the file code read by parse
FileCode(dv) == GetInt32BE(dv, 0)

\* a declared length in words taken for a length in bytes
WordsAsBytes(n) == n

\* the value a declared length in words gives in bytes
Words(n) == n * 2

\* the header part of parse: the file code is checked first, then the reads
\* run through byte 99
ParseHeader ==
    /\ ppc = "start"
    /\ IF ~InView(arrayBuffer, 0, 4)
       THEN /\ ppc' = "thrown" /\ thrown' = "RangeError"
            /\ UNCHANGED <<parsed, cursor>>
       ELSE IF FileCode(arrayBuffer) # 9994
       THEN /\ ppc' = "thrown" /\ thrown' = "Unknown file code"
            /\ parsed' = [parsed EXCEPT !.fileCode = FileCode(arrayBuffer)]
            /\ UNCHANGED cursor
       ELSE IF ~InView(arrayBuffer, 0, 100)
       THEN /\ ppc' = "thrown" /\ thrown' = "RangeError"
            /\ parsed' = [parsed EXCEPT !.fileCode = FileCode(arrayBuffer)]
            /\ UNCHANGED cursor
       ELSE /\ parsed' =
                [fileCode |-> FileCode(arrayBuffer),
                 wordLength |-> GetInt32BE(arrayBuffer, 24),
                 byteLength |-> Words(GetInt32BE(arrayBuffer, 24)),
                 version |-> GetInt32LE(arrayBuffer, 28),
                 shapeType |-> GetInt32LE(arrayBuffer, 32),
                 minX |-> getFloat64(arrayBuffer, 36), minY |-> getFloat64(arrayBuffer, 44),
                 maxX |-> getFloat64(arrayBuffer, 52), maxY |-> getFloat64(arrayBuffer, 60),
                 minZ |-> getFloat64(arrayBuffer, 68), maxZ |-> getFloat64(arrayBuffer, 76),
                 minM |-> getFloat64(arrayBuffer, 84), maxM |-> getFloat64(arrayBuffer, 92),
                 records |-> <<>>]
            /\ cursor' = 100
            /\ ppc' = "loop"
            /\ UNCHANGED thrown
    /\ UNCHANGED arrayBuffer
    /\ UNCHANGED bvVars
    /\ UNCHANGED codecVars

\* one iteration of the record loop
ParseRecord ==
    /\ ppc = "loop"
    /\ cursor < parsed.byteLength
    /\ Len(parsed.records) < MaxParsed
    /\ IF ~InView(arrayBuffer, cursor, 8)
       THEN /\ ppc' = "thrown" /\ thrown' = "RangeError"
            /\ UNCHANGED <<parsed, cursor>>
       ELSE LET number == GetInt32BE(arrayBuffer, cursor)
                length == GetInt32BE(arrayBuffer, cursor + 4)
                got == parseShape(arrayBuffer, cursor + 8, length)
                shape == IF got.thrown THEN NullShape ELSE got.shape
            IN  /\ parsed' = [parsed EXCEPT !.records =
                        Append(@, [number |-> number, length |-> length, shape |-> shape])]
                /\ cursor' = cursor + 8 + Words(length)
                /\ UNCHANGED <<ppc, thrown>>
    /\ UNCHANGED arrayBuffer
    /\ UNCHANGED bvVars
    /\ UNCHANGED codecVars

\* the loop ends and parse returns the model
ParseReturn ==
    /\ ppc = "loop"
    /\ cursor >= parsed.byteLength
    /\ ppc' = "returned"
    /\ UNCHANGED <<arrayBuffer, parsed, cursor, thrown>>
    /\ UNCHANGED bvVars
    /\ UNCHANGED codecVars

(***************************************************************************)
(* The buffers handed to parse: Shapefile containers laid out as the       *)
(* format prescribes, and damaged ones.                                    *)
(***************************************************************************)
MaxFileRecords == 2     \* records in a container

Doubles(ks) == Flatten([k \in 1..Len(ks) |-> Float64Bytes(Float64(ks[k]))])

Int32sLE(ks) == Flatten([k \in 1..Len(ks) |-> Bytes32LE(ks[k])])

\* record contents by variant, coordinates and measures in whole degrees
NullBytes == Bytes32LE(NULL)

PointBytes(type, values) == Bytes32LE(type) \o Doubles(values)

\* box, counts, parts, part types, points, then what follows the points
PolyBytes(type, box, counts, parts, partTypes, coords, rest) ==
    Bytes32LE(type) \o Doubles(box) \o Int32sLE(counts) \o Int32sLE(parts)
        \o Int32sLE(partTypes) \o Doubles(coords) \o Doubles(rest)

\* a record: its header, with the length in words, and its content
RecordBytes(number, length, content) == Bytes32BE(number) \o Bytes32BE(length) \o content

\* a record whose header states the length of its content
Record(number, content) == RecordBytes(number, Len(content) \div 2, content)

\* the bytes of the double NaN
QuietNaN == <<0, 0, 0, 0, 0, 0, 248, 127>>

ContentCatalog ==
    { NullBytes,
      PointBytes(POINT, <<200, -95>>),
      PointBytes(POINTZ, <<-181, 91, 5000, -7>>),
      PointBytes(POINTM, <<10, 20, 300>>),
      PolyBytes(POLYGON, <<-181, -91, 200, 95>>, <<1, 2>>, <<0>>, <<>>,
                <<-181, 91, 200, -95>>, <<>>),
      PolyBytes(POLYGONZ, <<1, 2, 3, 4>>, <<1, 2>>, <<0>>, <<>>,
                <<1, 2, 3, 4>>, <<500, 600, 500, 600, -7, -6, -7, -6>>),
      PolyBytes(POLYLINEM, <<1, 2, 3, 4>>, <<2, 2>>, <<0, 1>>, <<>>,
                <<1, 2, 3, 4>>, <<-7, 300, 300, -7>>),
      PolyBytes(MULTIPOINT, <<0, 0, 181, 0>>, <<2>>, <<>>, <<>>,
                <<181, 0, 0, 0>>, <<>>),
      PolyBytes(MULTIPOINTZ, <<5, 6, 5, 6>>, <<1>>, <<>>, <<>>,
                <<5, 6>>, <<900, 900, 900, 1, 1, 1>>),
      PolyBytes(MULTIPOINTM, <<5, 6, 5, 6>>, <<1>>, <<>>, <<>>,
                <<5, 6>>, <<-7, 300, 300>>),
      PolyBytes(MULTIPATCH, <<5, 6, 5, 6>>, <<1, 1>>, <<0>>, <<2>>,
                <<5, 6>>, <<900, 900, 900, 1, 1, 1>>),
      Bytes32LE(2),
      Bytes32LE(POINT) \o QuietNaN \o Doubles(<<5>>),
      PolyBytes(POLYGON, <<1, 2, 3, 4>>, <<1, 5>>, <<0>>, <<>>, <<1, 2>>, <<>>),
      PolyBytes(POLYLINE, <<1, 2, 3, 4>>, <<-1, 1>>, <<>>, <<>>, <<1, 2>>, <<>>) }

\* records whose header states another length than their content has
MisstatedRecords ==
    { RecordBytes(7, -4, NullBytes),
      RecordBytes(7, 0, NullBytes),
      RecordBytes(7, 6, NullBytes),
      RecordBytes(7, -60, NullBytes) }

RecordChoices(number) == { Record(number, c) : c \in ContentCatalog } \cup MisstatedRecords

FileHeader(magic, wordLength, version, shapeType) ==
    magic \o Zeros(20) \o Bytes32BE(wordLength) \o Bytes32LE(version) \o Bytes32LE(shapeType)
        \o Doubles(<<-180, -90, 180, 90, 0, 0, 0, 0>>)

\* a container whose header states its length
Container(magic, records) ==
    FileHeader(magic, (100 + Len(Flatten(records))) \div 2, 1000, POLYGON) \o Flatten(records)

RecordSeqs(n) ==
    UNION { { rs \in [1..k -> RecordChoices(1) \cup RecordChoices(2)] :
                \A i \in 1..k : GetInt32BE(rs[i], 0) \in {i, 7} } : k \in 0..n }

Magic == <<0, 0, 39, 10>>

\* the file code in the wrong byte order, off by one, negated, and zero
BadMagics == { <<10, 39, 0, 0>>, <<0, 0, 39, 11>>, <<255, 255, 216, 246>>, <<0, 0, 0, 0>> }

SampleRecords == << Record(1, PointBytes(POINT, <<200, -95>>)), Record(2, NullBytes) >>

GoodFiles == { Container(Magic, rs) : rs \in RecordSeqs(MaxFileRecords) }

BadMagicFiles ==
    { Container(mg, rs) : mg \in BadMagics, rs \in { <<>>, SampleRecords } }

\* a container cut short, and one whose header states more or fewer bytes
\* than it has
CutFiles ==
    { SubSeq(Container(mg, SampleRecords), 1, n) :
        mg \in BadMagics \cup {Magic}, n \in {0, 3, 4, 50, 99, 100, 104, 110} }

MisstatedFiles ==
    { FileHeader(Magic, w, 1000, POINT) \o Flatten(SampleRecords) : w \in {-1, 0, 50, 64, 65, 80} }

Files == GoodFiles \cup BadMagicFiles \cup CutFiles \cup MisstatedFiles

InitParse ==
    /\ arrayBuffer \in Files
    /\ ppc = "start"
    /\ cursor = 0
    /\ parsed = NoParse
    /\ thrown = ""
    /\ bvBuf = <<>>
    /\ bvPrev = <<>>
    /\ bvLog = <<>>
    /\ bvGot = NoOp
    /\ pc = "idle"
    /\ shp = NoModel
    /\ zbuf = <<>>
    /\ dec = NoResult

NextParse == ParseHeader \/ ParseRecord \/ ParseReturn

SpecParse == InitParse /\ [][NextParse]_vars

(***************************************************************************)
(* parse, compress and decompress in a row, as the round-trip test runs    *)
(* them: the model parse returns is handed to compress.                    *)
(***************************************************************************)
\* the integer a double of whole value holds, for |value| < 2^21
WholeValue(d) ==
    IF d.hi < 1023 * 1048576 THEN 0
    ELSE LET e == d.hi \div 1048576 - 1023
             k == Pow2(e) + (d.hi % 1048576) \div Pow2(20 - e)
         IN  IF d.neg THEN -k ELSE k

\* a coordinate in whole degrees as (x / 180) * 32767, in units of 1 / Scale
Units(d) == Trunc(WholeValue(d) * 32767 * Scale, 180)

\* a record of the model parse returns, as compress reads it
ParsedRecord(shape) ==
    LET content == shape.content
    IN  [type |-> shape.type, parts |-> content.parts,
         points |-> [k \in 1..Len(content.points) |->
                        <<Units(content.points[k][1]), Units(content.points[k][2])>>],
         hasZ |-> content.hasZ,
         z |-> [k \in 1..Len(content.zs) |-> WholeValue(content.zs[k])],
         hasM |-> content.hasM,
         m |-> [k \in 1..Len(content.ms) |-> WholeValue(content.ms[k])]]

ParsedModel(p) ==
    [shapeType |-> p.shapeType, fileCode |-> p.fileCode, version |-> p.version,
     records |-> [i \in 1..Len(p.records) |-> ParsedRecord(p.records[i].shape)]]

\* the content of a Polygon or PolyLine record laid out as the format
\* prescribes: parts that start at 0, whole degrees within range, and the z
\* and m blocks its type has
PolyContentBytes(type, parts, coords) ==
    LET n == Len(coords) \div 2
        block == <<-7, 300>> \o [k \in 1..n |-> 300 * k - 307]
    IN  PolyBytes(type, <<-180, -90, 180, 90>>, <<Len(parts), n>>, parts, <<>>, coords,
                  (IF IsZType(type) THEN block ELSE <<>>)
                      \o (IF IsMType(type) THEN block ELSE <<>>))

PolyContents(type) ==
    { NullBytes,
      PolyContentBytes(type, <<0>>, <<-180, 90, 10, -20>>),
      PolyContentBytes(type, <<0, 1>>, <<179, -89, 0, 0, -1, 1>>) }

PolyFileTypes == {POLYGON, POLYLINE, POLYGONZ, POLYLINEZ, POLYGONM, POLYLINEM}

\* well-formed files of one shape type: the header states the length of the
\* file, the records are numbered from 1 and state their lengths
PolyFile(type, contents) ==
    LET records == [i \in 1..Len(contents) |-> Record(i, contents[i])]
    IN  FileHeader(Magic, (100 + Len(Flatten(records))) \div 2, 1000, type) \o Flatten(records)

PolyFiles ==
    UNION { { PolyFile(type, cs) : cs \in SeqsUpTo(PolyContents(type), MaxFileRecords) } :
            type \in PolyFileTypes }

InitPipe ==
    /\ arrayBuffer \in PolyFiles
    /\ ppc = "start"
    /\ cursor = 0
    /\ parsed = NoParse
    /\ thrown = ""
    /\ bvBuf = <<>>
    /\ bvPrev = <<>>
    /\ bvLog = <<>>
    /\ bvGot = NoOp
    /\ pc = "idle"
    /\ shp = NoModel
    /\ zbuf = <<>>
    /\ dec = NoResult

\* compress(parse(buffer))
CompressParsed ==
    /\ ppc = "returned"
    /\ pc = "idle"
    /\ shp' = ParsedModel(parsed)
    /\ zbuf' = compress(shp')
    /\ pc' = "compressed"
    /\ UNCHANGED dec
    /\ UNCHANGED bvVars
    /\ UNCHANGED parseVars

NextPipe == ParseHeader \/ ParseRecord \/ ParseReturn \/ CompressParsed \/ Decompress

SpecPipe == InitPipe /\ [][NextPipe]_vars

(***************************************************************************)
(* writeShp (tools/shp-compress.ts): a decompressed model written back     *)
(* into a container, and the container parsed.                             *)
(***************************************************************************)
\* the power of two at or below a / b, as an exponent
RECURSIVE Exponent(_, _)
Exponent(a, b) ==
    IF a >= 2 * b THEN Exponent(a, 2 * b) + 1
    ELSE IF a < b THEN Exponent(2 * a, b) - 1
    ELSE 0

\* the first 5 * rounds bits of the fraction r / b
RECURSIVE FractionBits(_, _, _)
FractionBits(r, b, rounds) ==
    IF rounds = 0 THEN 0
    ELSE ((r * 32) \div b) * Pow2(5 * (rounds - 1)) + FractionBits((r * 32) % b, b, rounds - 1)

\* the double of a decompressed coordinate, d / Scale / 32767 * 180 degrees,
\* kept to its 21 leading bits
DegreesFloat64(d) ==
    IF d = 0 THEN [neg |-> FALSE, hi |-> 0, mid |-> 0, lo |-> 0]
    ELSE LET e == Exponent(Abs(d) * 180, 32767 * Scale)
             a == Abs(d) * 180 * (IF e < 0 THEN Pow2(-e) ELSE 1)
             b == 32767 * Scale * (IF e > 0 THEN Pow2(e) ELSE 1)
         IN  [neg |-> d < 0,
              hi |-> (1023 + e) * 1048576 + FractionBits(a - b, b, 4),
              mid |-> 0, lo |-> 0]

\* setFloat64 of a coordinate, and of a z or m value or bound
CoordinateBytes(d) == Float64Bytes(DegreesFloat64(d))

ValueBytes(v) ==
    IF v = NaN THEN QuietNaN
    ELSE IF Abs(v) < 2097152 THEN Float64Bytes(Float64(v))
    ELSE LET e == Log2(Abs(v))
             low == Pow2(e - 20)
         IN  Float64Bytes([neg |-> v < 0,
                           hi |-> (1023 + e) * 1048576 + (Abs(v) - Pow2(e)) \div low,
                           mid |-> ((Abs(v) - Pow2(e)) % low) * (65536 \div low),
                           lo |-> 0])

\* the range and the values of a z or m block
BlockBytes(lowest, highest, values) ==
    ValueBytes(lowest) \o ValueBytes(highest)
        \o Flatten([k \in 1..Len(values) |-> ValueBytes(values[k])])

\* what the writer puts after the header of a record, and how far its
\* cursor moves: nothing for a Null record, an x and a y that a record of
\* decompress does not have for a Point
ContentWritten(rec) ==
    IF rec.type = NULL THEN <<>>
    ELSE IF rec.type = POINT THEN Bytes32LE(POINT) \o QuietNaN \o QuietNaN
    ELSE IF rec.type = POINTZ
    THEN Bytes32LE(POINTZ) \o QuietNaN \o QuietNaN \o ValueBytes(0) \o ValueBytes(0)
    ELSE Bytes32LE(rec.type)
            \o CoordinateBytes(rec.minX) \o CoordinateBytes(rec.minY)
            \o CoordinateBytes(rec.maxX) \o CoordinateBytes(rec.maxY)
            \o Bytes32LE(Len(rec.parts)) \o Bytes32LE(Len(rec.points))
            \o Int32sLE(rec.parts)
            \o Flatten([k \in 1..Len(rec.points) |->
                    CoordinateBytes(rec.points[k][1]) \o CoordinateBytes(rec.points[k][2])])
            \o (IF rec.hasZ THEN BlockBytes(rec.minZ, rec.maxZ, rec.z) ELSE <<>>)
            \o (IF rec.hasM THEN BlockBytes(rec.minM, rec.maxM, rec.m) ELSE <<>>)

\* a record as the writer leaves it: header and content
RecordWritten(rec) == Bytes32BE(rec.number) \o Bytes32BE(rec.length) \o ContentWritten(rec)

\* the cursor of the writer before record i; for i one past the last
\* record, after all of them
WriterOffset(d, i) == 100 + Len(Flatten([k \in 1..(i - 1) |-> RecordWritten(d.records[k])]))

\* writeShp of a model with a byteLength: ok is FALSE when a record has a
\* type the writer throws for or a write leaves the buffer
writeShp(d) ==
    LET header == Bytes32BE(IF d.fileCode = 0 THEN 9994 ELSE d.fileCode)
                    \o Zeros(20)
                    \o Bytes32BE(IF d.wordLength = 0 THEN d.byteLength \div 2 ELSE d.wordLength)
                    \o Bytes32LE(IF d.version = 0 THEN 1000 ELSE d.version)
                    \o Bytes32LE(d.shapeType)
                    \o CoordinateBytes(d.minX) \o CoordinateBytes(d.minY)
                    \o CoordinateBytes(d.maxX) \o CoordinateBytes(d.maxY)
                    \o ValueBytes(d.minZ) \o ValueBytes(d.maxZ)
                    \o ValueBytes(d.minM) \o ValueBytes(d.maxM)
        written == header \o Flatten([k \in 1..Len(d.records) |-> RecordWritten(d.records[k])])
    IN  IF \E k \in 1..Len(d.records) :
                d.records[k].type \notin {NULL, POINT, POINTZ} /\ ~IsPolyType(d.records[k].type)
        THEN [ok |-> FALSE, buf |-> <<>>]
        ELSE IF Len(written) > d.byteLength THEN [ok |-> FALSE, buf |-> <<>>]
        ELSE [ok |-> TRUE, buf |-> written \o Zeros(d.byteLength - Len(written))]

\* models of one shape type with Null records among the others
WriteRecords(type) ==
    { CatalogRecord(1, NULL, <<>>, 0, FALSE, FALSE),
      CatalogRecord(2, type, <<0>>, 2, IsZType(type), IsMType(type)),
      CatalogRecord(3, type, <<0, 1>>, 3, IsZType(type), IsMType(type)) }

WriteModels ==
    UNION { { [shapeType |-> t, fileCode |-> 9994, version |-> 1000, records |-> rs] :
                rs \in SeqsUpTo(WriteRecords(t), MaxRecords) } :
            t \in {POLYGON, POLYLINE, POLYGONZ, POLYLINEM} }

InitWrite ==
    /\ shp \in WriteModels
    /\ pc = "ready"
    /\ zbuf = <<>>
    /\ dec = NoResult
    /\ bvBuf = <<>>
    /\ bvPrev = <<>>
    /\ bvLog = <<>>
    /\ bvGot = NoOp
    /\ arrayBuffer = <<>>
    /\ ppc = "idle"
    /\ cursor = 0
    /\ parsed = NoParse
    /\ thrown = ""

\* the decompressed model is written, and the container handed to parse
WriteShp ==
    /\ pc = "done"
    /\ ppc = "idle"
    /\ LET w == writeShp(dec)
       IN  IF w.ok THEN /\ arrayBuffer' = w.buf
                        /\ ppc' = "start"
                        /\ UNCHANGED thrown
           ELSE /\ ppc' = "thrown"
                /\ thrown' = "writer"
                /\ UNCHANGED arrayBuffer
    /\ UNCHANGED <<cursor, parsed>>
    /\ UNCHANGED bvVars
    /\ UNCHANGED codecVars

NextWrite ==
    Compress \/ Decompress \/ WriteShp \/ ParseHeader \/ ParseRecord \/ ParseReturn

SpecWrite == InitWrite /\ [][NextWrite]_vars

(***************************************************************************)
(* Properties of the codec.                                                *)
(***************************************************************************)
\* every x within [-180,180] and every y within [-90,90]
InRange(m) ==
    \A i \in 1..Len(m.records) : \A j \in 1..Len(m.records[i].points) :
        LET p == m.records[i].points[j]
        IN  Abs(p[1]) <= 32767 * Scale /\ 2 * Abs(p[2]) <= 32767 * Scale

NonDecreasing(q) == \A k \in 1..(Len(q) - 1) : q[k] <= q[k + 1]

\* the invariants of the data model: one shape type shared by the records
\* that are not Null; parts are non-decreasing offsets into the points; z and
\* m exist exactly for the Z and M variants, one value per point; clamped
\* coordinates
WellFormedRecord(rec) ==
    /\ rec.type = NULL => rec.points = <<>> /\ rec.parts = <<>>
    /\ NonDecreasing(rec.parts)
    /\ \A k \in 1..Len(rec.parts) : rec.parts[k] >= 0 /\ rec.parts[k] <= Len(rec.points)
    /\ rec.hasZ = (rec.type \in {POLYLINEZ, POLYGONZ, MULTIPOINTZ, MULTIPATCH})
    /\ rec.hasM = (rec.type \in {POLYLINEZ, POLYGONZ, MULTIPOINTZ, MULTIPATCH,
                                 POLYLINEM, POLYGONM, MULTIPOINTM})
    /\ rec.hasZ => Len(rec.z) = Len(rec.points)
    /\ rec.hasM => Len(rec.m) = Len(rec.points)

WellFormed(m) ==
    /\ InRange(m)
    /\ \A i \in 1..Len(m.records) :
        /\ m.records[i].type \in {m.shapeType, NULL}
        /\ WellFormedRecord(m.records[i])

Finished == pc \in {"done", "failed"}

\* C1 as stated: for a model satisfying the data-model invariants, every
\* record of decompress(compress(M)) has the part count and the point count
\* of the same record of M.
C1_AllRecordsKeepCounts ==
    (Finished /\ WellFormed(shp)) =>
        /\ pc = "done"
        /\ Len(dec.records) = Len(shp.records)
        /\ \A i \in 1..Len(shp.records) :
            /\ Len(dec.records[i].parts) = Len(shp.records[i].parts)
            /\ Len(dec.records[i].points) = Len(shp.records[i].points)

\* every point of the record lies in one of its parts
PartsCoverPoints(rec) == rec.points = <<>> \/ (rec.parts # <<>> /\ rec.parts[1] = 0)

\* C1 amended: the counts are kept for every Null record and for every
\* Polygon/PolyLine-family record whose parts cover all its points (first
\* part at point 0).
C1_CoveredRecordsKeepCounts ==
    (Finished /\ WellFormed(shp)) =>
        /\ pc = "done"
        /\ Len(dec.records) = Len(shp.records)
        /\ \A i \in 1..Len(shp.records) :
            LET rec == shp.records[i]
            IN  (rec.type = NULL \/ (IsPolyType(rec.type) /\ PartsCoverPoints(rec))) =>
                    /\ Len(dec.records[i].parts) = Len(rec.parts)
                    /\ Len(dec.records[i].points) = Len(rec.points)

\* a well-formed model of two records, the first with two parts, decompressed
C1_Witness ==
    /\ pc = "done"
    /\ WellFormed(shp)
    /\ Len(shp.records) = 2
    /\ Len(shp.records[1].parts) = 2 /\ Len(shp.records[1].points) = 3
    /\ Len(shp.records[2].points) = 2
    /\ Len(dec.records[1].points) = 3

\* C2 as stated: for any model, the result has the model's shapeType and
\* as many records.
C2_TypeAndCountKept ==
    Finished =>
        /\ pc = "done"
        /\ dec.shapeType = shp.shapeType
        /\ Len(dec.records) = Len(shp.records)

\* the shape type a model declares: its own, or its first record's when its
\* own is 0
DeclaredType(m) ==
    IF m.shapeType # 0 THEN m.shapeType
    ELSE IF m.records = <<>> THEN 0
    ELSE m.records[1].type

\* C2 amended: for a model with coordinates in range the result has as many
\* records, and its shapeType is the model's when that is not 0 and the
\* first record's type when it is 0.
C2_DeclaredTypeAndCountKept ==
    (Finished /\ InRange(shp)) =>
        /\ pc = "done"
        /\ dec.shapeType = DeclaredType(shp)
        /\ shp.shapeType # 0 => dec.shapeType = shp.shapeType
        /\ Len(dec.records) = Len(shp.records)

\* a model without a shape type whose first record is a polygon
C2_Witness ==
    /\ pc = "done"
    /\ shp.shapeType = 0
    /\ Len(shp.records) = 2
    /\ shp.records[1].type = POLYGON
    /\ dec.shapeType = POLYGON

\* the point of M that becomes point k of record i of the result
SourcePoint(i, k) == shp.records[i].points[PointIndices(shp.records[i])[k] + 1]

\* C3: with coordinates in range, every decompressed coordinate is within
\* 0.1 degree of the original, and in 16-bit units it is 16*trunc(q/16),
\* at most 15 from the first-stage value q.
C3_ErrorBound ==
    (pc = "done" /\ InRange(shp)) =>
        \A i \in 1..Len(dec.records) : \A k \in 1..Len(dec.records[i].points) :
            \A a \in {1, 2} :
                LET n == SourcePoint(i, k)[a]
                    d == dec.records[i].points[k][a]
                    q == Trunc(n, Scale)
                IN  /\ Abs(n - d) * 1800 < 32767 * Scale
                    /\ d = Scale * 16 * Trunc(q, 16)
                    /\ Abs(q * Scale - d) <= 15 * Scale

\* a negative coordinate that loses 15 units in the second stage, and the
\* corner of the range
C3_Witness ==
    /\ pc = "done"
    /\ InRange(shp)
    /\ Len(shp.records) = 1
    /\ shp.records[1].points = << <<17 * Scale + 1, -(32 * Scale - 1)>>,
                                  <<32767 * Scale, (32767 * Scale) \div 2>> >>
    /\ dec.records[1].points[1] = <<16 * Scale, -16 * Scale>>

\* the bit-packed point payload inside a compact buffer
PointPayload(buffer) ==
    Slice(buffer, ReadTable(buffer, 14, GetUint32LE(buffer, 2), <<>>).offset, Len(buffer))

\* the stream of 12-bit values of a model, the terminator dropped
Quantized(m) == LET q == Quantize12(Int16Stream(m)) IN SubSeq(q, 1, Len(q) - 1)

\* C4: when the 12-bit values lie in [-2047,2047] the decoded stream is
\* each value times 16, in order, followed by terminators only.
C4_DeltaExact ==
    (pc = "compressed" /\ \A k \in 1..Len(Quantized(shp)) : Abs(Quantized(shp)[k]) <= 2047) =>
        LET q == Quantized(shp)
            flat == deltaDecode6(PointPayload(zbuf))
        IN  /\ Len(flat) > Len(q)
            /\ q # <<>> => Len(flat) = Len(q) + 1
            /\ \A k \in 1..Len(flat) : flat[k] = IF k <= Len(q) THEN 16 * q[k] ELSE -32768

\* an anchor, a delta pair of (31,-30) and a new anchor forced by a delta of 62
C4_Witness ==
    /\ pc = "compressed"
    /\ Len(shp.records) = 1
    /\ shp.records[1].points = << <<0, 0>>, <<31 * Step, -30 * Step>>, <<31 * Step, 32 * Step>> >>
    /\ EncodeState(Int16Stream(shp)).polys = << << <<0, 0, 31, -30>>, <<31, 32>> >> >>

\* some record has a z or an m array
CarriesZM(m) == \E i \in 1..Len(m.records) : m.records[i].hasZ \/ m.records[i].hasM

PartTable(buffer) == ReadTable(buffer, 14, GetUint32LE(buffer, 2), <<>>).recordParts

\* the value a coordinate n of M comes back as
Requantized(n) == Scale * 16 * Trunc(Quantize16(n), 16)

\* C8: a record outside the Polygon/PolyLine family is written with an
\* empty part table and comes back as a Null record at its position, and
\* every other record comes back with its own points.
C8_NullSafe ==
    (pc = "done" /\ InRange(shp)) =>
        /\ Len(dec.records) = Len(shp.records)
        /\ \A i \in 1..Len(shp.records) :
            LET rec == shp.records[i]
                js == PointIndices(rec)
            IN  /\ ~IsPolyType(rec.type) =>
                    /\ PartTable(zbuf)[i] = <<>>
                    /\ dec.records[i].type = NULL
                    /\ ~dec.records[i].content
                    /\ dec.records[i].points = <<>>
                /\ IsPolyType(rec.type) =>
                    dec.records[i].points =
                        [k \in 1..Len(js) |-> <<Requantized(rec.points[js[k] + 1][1]),
                                                Requantized(rec.points[js[k] + 1][2])>>]

\* a Null record in front of a polygon record, as in the test of empty records
C8_Witness ==
    /\ pc = "done"
    /\ shp.shapeType = POLYGON
    /\ Len(shp.records) = 2
    /\ shp.records[1].type = NULL
    /\ shp.records[2].type = POLYGON /\ Len(shp.records[2].points) = 2
    /\ dec.records[1].type = NULL
    /\ Len(dec.records[2].points) = 2

Least(S) == CHOOSE v \in S : \A w \in S : v <= w
Greatest(S) == CHOOSE v \in S : \A w \in S : v >= w

\* the coordinates on axis a of the points of a record, and of all records
Coordinates(rec, a) == { rec.points[k][a] : k \in 1..Len(rec.points) }
AllCoordinates(records, a) == UNION { Coordinates(records[i], a) : i \in 1..Len(records) }

\* the minimum and maximum of a set of coordinates, those of no coordinate
\* being the values the search starts from
MinOver(S) == IF S = {} THEN Infinity ELSE Least(S)
MaxOver(S) == IF S = {} THEN NegInfinity ELSE Greatest(S)

\* C9: the bounds of every decompressed record that is not Null are the
\* minimum and maximum of its points, and the bounds of the file are those
\* of all points of all records.
C9_BoundsRecomputed ==
    pc = "done" =>
        /\ \A i \in 1..Len(dec.records) :
            LET rec == dec.records[i]
            IN  rec.type # NULL =>
                    /\ rec.minX = MinOver(Coordinates(rec, 1))
                    /\ rec.maxX = MaxOver(Coordinates(rec, 1))
                    /\ rec.minY = MinOver(Coordinates(rec, 2))
                    /\ rec.maxY = MaxOver(Coordinates(rec, 2))
        /\ AllCoordinates(dec.records, 1) # {} =>
            /\ dec.minX = Least(AllCoordinates(dec.records, 1))
            /\ dec.maxX = Greatest(AllCoordinates(dec.records, 1))
            /\ dec.minY = Least(AllCoordinates(dec.records, 2))
            /\ dec.maxY = Greatest(AllCoordinates(dec.records, 2))

\* two records with points; the file bounds come from different records
C9_Witness ==
    /\ pc = "done"
    /\ Len(dec.records) = 2
    /\ dec.records[1].points # <<>> /\ dec.records[2].points # <<>>
    /\ dec.maxX = dec.records[1].maxX /\ dec.maxX > dec.records[2].maxX
    /\ dec.maxY = dec.records[2].maxY /\ dec.maxY > dec.records[1].maxY

(***************************************************************************)
(* The BitView under test: a view over BufLen bytes with some previous     *)
(* content, written and read back through the public accessors.            *)
(***************************************************************************)
FieldWidth(kind) == IF kind = "int12" THEN 12 ELSE IF kind = "int6" THEN 6 ELSE 1

\* bit offsets at which a field of width w lies inside the buffer
Offsets(w) == 0 .. (BufLen * 8 - w)

\* previous contents: all bits clear, all bits set, two mixed patterns
PriorBufs ==
    { [i \in 1..BufLen |-> 0],
      [i \in 1..BufLen |-> 255],
      [i \in 1..BufLen |-> IF i % 2 = 1 THEN 165 ELSE 90],
      [i \in 1..BufLen |-> IF i % 2 = 1 THEN 60 ELSE 195] }

Int12Range == -2048 .. 2047
Int6Range == -32 .. 31

\* the values written in packed sequences: the extremes and mixed bit patterns
Int12Some == {-2048, -683, 682, 2047}
Int6Some == {-32, -11, 10, 31}

InitBV ==
    /\ bvBuf \in PriorBufs
    /\ bvPrev = bvBuf
    /\ bvLog = <<>>
    /\ bvGot = NoOp
    /\ pc = "idle"
    /\ shp = NoModel
    /\ zbuf = <<>>
    /\ dec = NoResult
    /\ arrayBuffer = <<>>
    /\ ppc = "idle"
    /\ cursor = 0
    /\ parsed = NoParse
    /\ thrown = ""

Write(kind, idx, val, after) ==
    /\ bvPrev' = bvBuf
    /\ bvBuf' = after
    /\ bvLog' = Append(bvLog, [kind |-> kind, idx |-> idx, val |-> val])
    /\ bvGot' = NoOp
    /\ UNCHANGED codecVars
    /\ UNCHANGED parseVars

SetBit(idx, val) == Write("bit", idx, val, setBit(bvBuf, idx, val))

SetInt6(idx, val) == Write("int6", idx, val, setInt6(bvBuf, idx, val))

SetInt12(idx, val) == Write("int12", idx, val, setInt12(bvBuf, idx, val))

Read(kind, idx, val) ==
    /\ bvGot' = [kind |-> kind, idx |-> idx, val |-> val]
    /\ UNCHANGED <<bvBuf, bvPrev, bvLog>>
    /\ UNCHANGED codecVars
    /\ UNCHANGED parseVars

GetBit(idx) == Read("bit", idx, getBit(bvBuf, idx))

GetInt6(idx) == Read("int6", idx, getInt6(bvBuf, idx))

GetInt12(idx) == Read("int12", idx, getInt12(bvBuf, idx))

\* the offsets of the fields of one kind written so far
Written(kind) == { bvLog[k].idx : k \in { j \in 1..Len(bvLog) : bvLog[j].kind = kind } }

\* One field is written at any offset with any value, then read back.
NextBV ==
    \/ Len(bvLog) = 0 /\ \E idx \in Offsets(1), v \in {0, 1} : SetBit(idx, v)
    \/ Len(bvLog) = 0 /\ \E idx \in Offsets(6), v \in Int6Range : SetInt6(idx, v)
    \/ Len(bvLog) = 0 /\ \E idx \in Offsets(12), v \in Int12Range : SetInt12(idx, v)
    \/ \E idx \in Written("bit") : GetBit(idx)
    \/ \E idx \in Written("int6") : GetInt6(idx)
    \/ \E idx \in Written("int12") : GetInt12(idx)

SpecBV == InitBV /\ [][NextBV]_vars

\* the bits covered by the fields written so far
Covered == UNION { bvLog[k].idx .. (bvLog[k].idx + FieldWidth(bvLog[k].kind) - 1) : k \in 1..Len(bvLog) }

\* a further field is packed directly before or directly after the fields
\* already written, as storeDeltas6 packs them
Packs(idx, w) ==
    \/ Covered = {}
    \/ /\ (idx .. (idx + w - 1)) \cap Covered = {}
       /\ (idx + w) \in Covered \/ (idx - 1) \in Covered

NextBVSeq ==
    \/ /\ Len(bvLog) < MaxWrites
       /\ \E idx \in { i \in Offsets(1) : Packs(i, 1) }, v \in {0, 1} : SetBit(idx, v)
    \/ /\ Len(bvLog) < MaxWrites
       /\ \E idx \in { i \in Offsets(6) : Packs(i, 6) }, v \in Int6Some : SetInt6(idx, v)
    \/ /\ Len(bvLog) < MaxWrites
       /\ \E idx \in { i \in Offsets(12) : Packs(i, 12) }, v \in Int12Some : SetInt12(idx, v)

SpecBVSeq == InitBV /\ [][NextBVSeq]_vars

\* the value last written to the field (kind, idx), 99 if none
RECURSIVE LastWritten(_, _, _)
LastWritten(log, kind, idx) ==
    IF log = <<>> THEN 99
    ELSE IF log[Len(log)].kind = kind /\ log[Len(log)].idx = idx THEN log[Len(log)].val
    ELSE LastWritten(SubSeq(log, 1, Len(log) - 1), kind, idx)

\* C5: a 12-bit or 6-bit field read back at the offset it was written to
\* holds the value that was written, at every bit offset and over any
\* previous content of the buffer.
C5_RoundTrip ==
    bvGot.kind \in {"int12", "int6"} => bvGot.val = LastWritten(bvLog, bvGot.kind, bvGot.idx)

\* a 12-bit field that straddles three bytes, written over set bits and read back
C5_Witness ==
    /\ bvGot.kind = "int12"
    /\ bvGot.idx % 8 = 5
    /\ bvGot.val = -683
    /\ bvPrev = [i \in 1..BufLen |-> 255]

\* the bits of the buffer outside the field written last
Outside == (0 .. (BufLen * 8 - 1)) \ LET op == bvLog[Len(bvLog)] IN op.idx .. (op.idx + FieldWidth(op.kind) - 1)

\* bit i of a buffer, the most significant bit of a byte first
BitOf(buf, i) == (buf[(i \div 8) + 1] \div Pow2(7 - (i % 8))) % 2

\* the value the BitView returns for a logged field
FieldValue(op) ==
    IF op.kind = "int12" THEN getInt12(bvBuf, op.idx)
    ELSE IF op.kind = "int6" THEN getInt6(bvBuf, op.idx)
    ELSE getBit(bvBuf, op.idx)

\* C6: a write changes no bit outside its own field, so every field packed
\* earlier still reads back the value written to it.
C6_Framed ==
    bvLog # <<>> =>
        /\ \A i \in Outside : BitOf(bvBuf, i) = BitOf(bvPrev, i)
        /\ \A k \in 1..Len(bvLog) : FieldValue(bvLog[k]) = bvLog[k].val

\* a 6-bit field packed directly after a 12-bit field at an odd offset,
\* over set bits
C6_Witness ==
    /\ Len(bvLog) = 2
    /\ bvLog[1].kind = "int12" /\ bvLog[1].idx = 1 /\ bvLog[1].val = -2048
    /\ bvLog[2].kind = "int6" /\ bvLog[2].idx = 13 /\ bvLog[2].val = -32
    /\ bvPrev[1] = 128

(***************************************************************************)
(* Properties of parse.                                                    *)
(***************************************************************************)
\* the buffer does not begin with the bytes of 9994, most significant first
BadFileCode(buf) == Len(buf) < 4 \/ SubSeq(buf, 1, 4) # <<0, 0, 39, 10>>

\* C10: for a buffer whose first four bytes are not 9994 read big-endian,
\* parse throws in its first step: it returns no model and reads no record.
C10_BadFileCodeFails ==
    BadFileCode(arrayBuffer) =>
        /\ ppc \in {"start", "thrown"}
        /\ ppc = "thrown" => thrown # ""
        /\ parsed.records = <<>>
        /\ cursor = 0

\* a complete container with the file code in little-endian order is refused
C10_Witness ==
    /\ arrayBuffer = Container(<<10, 39, 0, 0>>, SampleRecords)
    /\ ppc = "thrown"
    /\ thrown = "Unknown file code"
    /\ parsed.fileCode = 170328064

(***************************************************************************)
(* Properties of decompress on damaged buffers.                            *)
(***************************************************************************)
\* C11: a buffer whose first byte is neither 1 nor 2 makes decompress fail
\* with the version error, whatever follows the byte and even when nothing
\* follows it: no other field has been read.
C11_BadVersionFails ==
    (Finished /\ zbuf # <<>> /\ zbuf[1] \notin {1, 2}) => dec = Failure("version")

\* a buffer of the single byte 3 is refused for its version, not its length
C11_Witness ==
    /\ pc = "failed"
    /\ zbuf = <<3>>
    /\ dec = Failure("version")

(***************************************************************************)
(* Properties of the record loop of parse.                                 *)
(***************************************************************************)
\* where the header of record i lies when every record before it takes the
\* 8 + 2*length bytes its header states
RECURSIVE RecordOffset(_, _)
RecordOffset(buf, i) ==
    IF i <= 1 THEN 100
    ELSE LET o == RecordOffset(buf, i - 1)
         IN  o + 8 + 2 * GetInt32BE(buf, o + 4)

\* the record parse makes of the header at offset o and the shape after it
RecordAt(buf, o) ==
    LET got == parseShape(buf, o + 8, GetInt32BE(buf, o + 4))
    IN  [number |-> GetInt32BE(buf, o), length |-> GetInt32BE(buf, o + 4),
         shape |-> IF got.thrown THEN NullShape ELSE got.shape]

\* parseShape fails for the record at offset o
ShapeFails(buf, o) == parseShape(buf, o + 8, GetInt32BE(buf, o + 4)).thrown

\* C12: a record whose shape cannot be parsed is returned as Null, the
\* cursor moves on by 8 + 2*length of its header, every record is what its
\* own header and content give wherever the records before it failed, there
\* is one record per header read, and parse throws in the loop only when a
\* record header lies outside the buffer.
C12_MalformedRecordNonFatal ==
    /\ ppc \in {"loop", "returned"} =>
        /\ cursor = RecordOffset(arrayBuffer, Len(parsed.records) + 1)
        /\ \A i \in 1..Len(parsed.records) :
            LET o == RecordOffset(arrayBuffer, i)
            IN  /\ InView(arrayBuffer, o, 8)
                /\ parsed.records[i] = RecordAt(arrayBuffer, o)
                /\ ShapeFails(arrayBuffer, o) => parsed.records[i].shape = NullShape
    /\ (ppc = "thrown" /\ parsed.wordLength # 0) => ~InView(arrayBuffer, cursor, 8)

\* a record of the unknown type 2 comes back as Null and the point record
\* after it is parsed
C12_Witness ==
    /\ ppc = "returned"
    /\ Len(parsed.records) = 2
    /\ GetInt32LE(arrayBuffer, 108) = 2
    /\ parsed.records[1].shape = NullShape
    /\ parsed.records[2].number = 2
    /\ parsed.records[2].shape.type = POINT
    /\ parsed.records[2].shape.content.kind = "point"

\* the bytes the records of a model take: 8 + 2*length each
RECURSIVE RecordsSpan(_)
RecordsSpan(records) ==
    IF records = <<>> THEN 0 ELSE 8 + 2 * Head(records).length + RecordsSpan(Tail(records))

\* C13 as stated, for parse: the model parse returns has byteLength =
\* 2*wordLength = 100 + the sum over its records of 8 + 2*length.
C13_ParsedLengthInvariant ==
    ppc = "returned" =>
        /\ parsed.byteLength = 2 * parsed.wordLength
        /\ parsed.byteLength = 100 + RecordsSpan(parsed.records)

(***************************************************************************)
(* Properties of the z and m arrays.                                       *)
(***************************************************************************)
\* a model of a Z or M Polygon/PolyLine type whose records all carry the
\* arrays of the type, one value per point
CarriesAll(m) ==
    /\ m.shapeType \in {POLYLINEZ, POLYGONZ, POLYLINEM, POLYGONM}
    /\ \A i \in 1..Len(m.records) :
        LET rec == m.records[i]
        IN  /\ rec.type = m.shapeType
            /\ rec.hasM /\ Len(rec.m) = Len(rec.points)
            /\ IsZType(m.shapeType) => rec.hasZ /\ Len(rec.z) = Len(rec.points)

\* got is the single-precision number nearest to orig
SinglePrecision(orig, got) ==
    IF orig = NaN THEN got = NaN ELSE Abs(got - orig) * 16777216 <= Abs(orig)

\* the values of an array as a set
Values(arr) == { arr[k] : k \in 1..Len(arr) }

\* an array came back: one value per decompressed point, the i-th the i-th
\* original value, and the bounds those of the values that came back
ArrayKept(orig, got, n, lowest, highest) ==
    /\ Len(got) = n
    /\ Len(orig) = n
    /\ \A k \in 1..n : SinglePrecision(orig[k], got[k])
    /\ lowest = MinOver(Values(got))
    /\ highest = MaxOver(Values(got))

\* C14 as stated: in the result for such a model every record has the
\* arrays of the type, value for value.
C14_ArraysKept ==
    (pc = "done" /\ CarriesAll(shp)) =>
        \A i \in 1..Len(shp.records) :
            LET rec == shp.records[i]
                got == dec.records[i]
            IN  /\ got.hasM
                /\ ArrayKept(rec.m, got.m, Len(got.points), got.minM, got.maxM)
                /\ IsZType(shp.shapeType) =>
                    /\ got.hasZ
                    /\ ArrayKept(rec.z, got.z, Len(got.points), got.minZ, got.maxZ)

\* the record has a part and its first part starts at its first point
FirstPartAtZero(rec) == rec.parts # <<>> /\ rec.parts[1] = 0

\* C14 amended: the same for the models whose coordinates are in range and
\* whose records each have a first part that starts at point 0; decompress
\* succeeds on them.
C14_CoveredArraysKept ==
    (Finished /\ CarriesAll(shp) /\ WellFormed(shp)
        /\ \A i \in 1..Len(shp.records) : FirstPartAtZero(shp.records[i])) =>
        /\ pc = "done"
        /\ \A i \in 1..Len(shp.records) :
            LET rec == shp.records[i]
                got == dec.records[i]
            IN  /\ got.hasM
                /\ ArrayKept(rec.m, got.m, Len(got.points), got.minM, got.maxM)
                /\ IsZType(shp.shapeType) =>
                    /\ got.hasZ
                    /\ ArrayKept(rec.z, got.z, Len(got.points), got.minZ, got.maxZ)
                /\ ~IsZType(shp.shapeType) => ~got.hasZ

\* two PolygonZ records; the second one's values come back, 16777217
\* rounded to single precision
C14_Witness ==
    /\ pc = "done"
    /\ shp.shapeType = POLYGONZ
    /\ shp.records = << CatalogRecord(8, POLYGONZ, <<0>>, 2, TRUE, TRUE),
                        CatalogRecord(8, POLYGONZ, <<0>>, 2, TRUE, TRUE) >>
    /\ dec.records[2].z = <<16777216, 802>>
    /\ dec.records[2].m = <<-81, -82>>
    /\ dec.records[2].minZ = 802 /\ dec.records[2].maxM = -81

(***************************************************************************)
(* Properties of the coordinates parse returns.                            *)
(***************************************************************************)
\* the double d lies in [-bound, bound]
Within(d, bound) ==
    /\ ~Float64IsNaN(d)
    /\ ~Float64Less(d, Float64(-bound))
    /\ ~Float64Less(Float64(bound), d)

\* where the z range of the poly or multipoint content at byte c begins
StoredZAt(buf, c) ==
    LET type == GetInt32LE(buf, c)
    IN  IF type \in {MULTIPOINT, MULTIPOINTZ, MULTIPOINTM}
        THEN c + 40 + 16 * GetInt32LE(buf, c + 36)
        ELSE c + 44 + (IF type = MULTIPATCH THEN 8 ELSE 4) * GetInt32LE(buf, c + 36)
                    + 16 * GetInt32LE(buf, c + 40)

\* the z and m of a shape are the doubles stored at byte c onwards
StoredExactly(buf, c, content) ==
    IF content.kind = "point"
    THEN /\ content.hasZ => content.z = getFloat64(buf, c + 20)
         /\ content.hasM => content.m = getFloat64(buf, c + (IF content.hasZ THEN 28 ELSE 20))
    ELSE LET n == Len(content.points)
             zAt == StoredZAt(buf, c)
             mAt == zAt + (IF content.hasZ THEN 16 + 8 * n ELSE 0)
         IN  /\ content.hasZ =>
                    /\ Len(content.zs) = n
                    /\ \A k \in 1..n : content.zs[k] = getFloat64(buf, zAt + 16 + 8 * (k - 1))
             /\ content.hasM =>
                    /\ Len(content.ms) = n
                    /\ \A k \in 1..n : content.ms[k] = getFloat64(buf, mAt + 16 + 8 * (k - 1))

\* C15 as stated: in the model parse returns every x lies in [-180,180] and
\* every y in [-90,90], for point, multipoint and poly shapes, and z and m
\* are the stored doubles.
C15_CoordinatesClamped ==
    ppc = "returned" =>
        \A i \in 1..Len(parsed.records) :
            LET content == parsed.records[i].shape.content
            IN  /\ content.kind = "point" => Within(content.x, 180) /\ Within(content.y, 90)
                /\ \A k \in 1..Len(content.points) :
                        Within(content.points[k][1], 180) /\ Within(content.points[k][2], 90)
                /\ content.kind # "none" =>
                        StoredExactly(arrayBuffer, RecordOffset(arrayBuffer, i) + 8, content)

(***************************************************************************)
(* C16  a compact buffer that lost its end                                 *)
(***************************************************************************)

\* a is b without its last bytes
ProperPrefix(a, b) == Len(a) < Len(b) /\ a = SubSeq(b, 1, Len(a))

\* C16 as stated: decompress of a compact buffer cut short at any byte fails
\* and returns no model.
C16_TruncatedFails ==
    (Finished /\ ProperPrefix(zbuf, compress(shp))) => pc = "failed"

(***************************************************************************)
(* C17  record numbers and lengths through parse, compress, decompress     *)
(***************************************************************************)

\* C17: for the model parse returns for a well-formed file of Polygon,
\* PolyLine (Z and M variants included) and Null records, decompress of its
\* compressed form succeeds and has the same record count, the same number
\* and length in every record, and the same wordLength and byteLength.
C17_NumbersAndLengthsKept ==
    (Finished /\ ppc = "returned") =>
        /\ pc = "done"
        /\ Len(dec.records) = Len(parsed.records)
        /\ \A i \in 1..Len(parsed.records) :
              /\ dec.records[i].number = parsed.records[i].number
              /\ dec.records[i].length = parsed.records[i].length
        /\ dec.wordLength = parsed.wordLength
        /\ dec.byteLength = parsed.byteLength

\* a PolygonZ file of a two-part record and a Null record came back
C17_Witness ==
    /\ pc = "done"
    /\ ppc = "returned"
    /\ parsed.shapeType = POLYGONZ
    /\ Len(parsed.records) = 2
    /\ parsed.records[1].length = 90
    /\ dec.records[1].length = 90
    /\ Len(dec.records[1].points) = 3
    /\ dec.records[2].number = 2
    /\ dec.records[2].type = NULL
    /\ dec.byteLength = Len(arrayBuffer)

(***************************************************************************)
(* C18  decompressed coordinates stay in range                             *)
(***************************************************************************)

\* C18: when every x of the model lies in [-180,180] and every y in
\* [-90,90], so does every x and y of the decompressed model, and each
\* decompressed coordinate lies between 0 and the original: it has the sign
\* of the original or is 0, and its magnitude is not larger.
C18_StaysInRange ==
    (pc = "done" /\ InRange(shp)) =>
        /\ InRange(dec)
        /\ \A i \in 1..Len(dec.records) : \A k \in 1..Len(dec.records[i].points) :
              \A a \in {1, 2} :
                  LET n == SourcePoint(i, k)[a]
                      d == dec.records[i].points[k][a]
                  IN  /\ Abs(d) <= Abs(n)
                      /\ (n >= 0 => d >= 0) /\ (n <= 0 => d <= 0)

\* a point that both stages shorten, followed by the corner of the range
C18_Witness ==
    /\ pc = "done"
    /\ InRange(shp)
    /\ Len(shp.records) = 1
    /\ shp.records[1].points = << <<17 * Scale + 1, -(32 * Scale - 1)>>,
                                  <<32767 * Scale, (32767 * Scale) \div 2>> >>
    /\ dec.records[1].points = << <<16 * Scale, -(16 * Scale)>>,
                                  <<32752 * Scale, 16368 * Scale>> >>

(***************************************************************************)
(* C19  the header of the compact buffer                                   *)
(***************************************************************************)

\* where the table entry of record i begins; for i one past the last record,
\* where the table ends
RECURSIVE TableOffset(_, _)
TableOffset(buf, i) ==
    IF i <= 1 THEN 14
    ELSE LET o == TableOffset(buf, i - 1) IN o + 2 + 4 * GetUint16LE(buf, o)

\* the table entry of record i: the part count in two bytes, then the point
\* count of each part in four bytes; no parts for a record compress skips
TableEntryAt(buf, i, rec) ==
    LET o == TableOffset(buf, i)
        n == IF IsPolyType(rec.type) THEN Len(rec.parts) ELSE 0
    IN  /\ GetUint16LE(buf, o) = n
        /\ \A k \in 1..n :
              GetUint32LE(buf, o + 2 + 4 * (k - 1)) = PartEnd(rec, k) - rec.parts[k]

\* the fixed fields and the table of the buffer compress wrote for m, with
\* the given file code and version
HeaderLayout(buf, m, fileCode, version) ==
    /\ buf[1] \in {1, 2}
    /\ buf[2] = EffectiveType(m)
    /\ GetUint32LE(buf, 2) = Len(m.records)
    /\ GetInt32LE(buf, 6) = fileCode
    /\ GetInt32LE(buf, 10) = version
    /\ \A i \in 1..Len(m.records) : TableEntryAt(buf, i, m.records[i])

\* decompress took its fields from the same places
ReadsHeader(buf, d) ==
    /\ d.shapeType = buf[2]
    /\ Len(d.records) = GetUint32LE(buf, 2)
    /\ d.fileCode = GetInt32LE(buf, 6)
    /\ d.version = GetInt32LE(buf, 10)

OrDefault(value, default) == IF value = 0 THEN default ELSE value

PackedFields(m) == AllFields(EncodeState(Int16Stream(m)).polys)

\* the bit at which field k begins: the 32 bits of the length, then the
\* fields before it
FieldStart(fields, k) == 32 + SumSeq([j \in 1..(k - 1) |-> fields[j].w])

\* the fields lie one after another from bit 32 of the payload
FieldsFollow(payload, fields) ==
    \A k \in 1..Len(fields) :
        fields[k].val = IF fields[k].w = 12 THEN getInt12(payload, FieldStart(fields, k))
                                            ELSE getInt6(payload, FieldStart(fields, k))

\* C20 as stated: the first four bytes of the payload are its total bit
\* length, least significant byte first, and the packed fields follow from
\* bit 32.
C20_BitLengthLittleEndian ==
    pc = "compressed" =>
        LET payload == PointPayload(zbuf)
            fields == PackedFields(shp)
        IN  /\ GetUint32LE(payload, 0) = FieldStart(fields, Len(fields) + 1)
            /\ FieldsFollow(payload, fields)

\* C20 amended: the first four bytes of the payload are its total bit
\* length, most significant byte first, and the packed fields follow from
\* bit 32.
C20_BitLengthBigEndian ==
    pc = "compressed" =>
        LET payload == PointPayload(zbuf)
            fields == PackedFields(shp)
        IN  /\ GetUint32BE(payload, 0) = FieldStart(fields, Len(fields) + 1)
            /\ FieldsFollow(payload, fields)

\* a polygon of two points: 86 bits, stored as 0, 0, 0, 86
C20_Witness ==
    /\ pc = "compressed"
    /\ shp.records = <<CatalogRecord(2, POLYGON, <<0>>, 2, FALSE, FALSE)>>
    /\ shp.shapeType = POLYGON
    /\ Len(PackedFields(shp)) = 6
    /\ SubSeq(PointPayload(zbuf), 1, 4) = <<0, 0, 0, 86>>
    /\ getInt12(PointPayload(zbuf), 32) = PackedFields(shp)[1].val

(***************************************************************************)
(* C21  the z and m arrays of a parsed record                              *)
(***************************************************************************)

ZTypes == {POLYLINEZ, POLYGONZ, MULTIPOINTZ}
MTypes == {POLYLINEM, POLYGONM, MULTIPOINTM}

\* the range that precedes an array of a poly or multipoint content is the
\* pair of doubles stored at byte at
RangeStoredAt(buf, at, lowest, highest) ==
    lowest = getFloat64(buf, at) /\ highest = getFloat64(buf, at + 8)

\* C21: in the model parse returns, a poly or multipoint record has a z
\* array and z range exactly when its type is a Z type or MultiPatch, and an
\* m array and m range exactly when its type is an M type, a Z type or
\* MultiPatch; each array has one value per point; the z block is stored
\* directly after the points and the m block after the z block, or after
\* the points when there is no z block.
C21_ZAndMByType ==
    ppc = "returned" =>
        \A i \in 1..Len(parsed.records) :
            LET shape == parsed.records[i].shape
                content == shape.content
                c == RecordOffset(arrayBuffer, i) + 8
                n == Len(content.points)
                zAt == StoredZAt(arrayBuffer, c)
                mAt == zAt + (IF content.hasZ THEN 16 + 8 * n ELSE 0)
            IN  content.kind = "poly" =>
                    /\ content.hasZ <=> shape.type \in ZTypes \cup {MULTIPATCH}
                    /\ content.hasM <=> shape.type \in MTypes \cup ZTypes \cup {MULTIPATCH}
                    /\ Len(content.zs) = IF content.hasZ THEN n ELSE 0
                    /\ Len(content.ms) = IF content.hasM THEN n ELSE 0
                    /\ content.hasZ => RangeStoredAt(arrayBuffer, zAt, content.minZ, content.maxZ)
                    /\ content.hasM => RangeStoredAt(arrayBuffer, mAt, content.minM, content.maxM)
                    /\ StoredExactly(arrayBuffer, c, content)

\* a PolygonZ record of two points with both blocks, then a MultiPatch
\* record with both blocks
C21_Witness ==
    /\ ppc = "returned"
    /\ Len(parsed.records) = 2
    /\ parsed.records[1].shape.type = POLYGONZ
    /\ parsed.records[1].shape.content.minZ = Float64(500)
    /\ parsed.records[1].shape.content.zs = <<Float64(500), Float64(600)>>
    /\ parsed.records[1].shape.content.maxM = Float64(-6)
    /\ parsed.records[1].shape.content.ms = <<Float64(-7), Float64(-6)>>
    /\ parsed.records[2].shape.type = MULTIPATCH
    /\ parsed.records[2].shape.content.zs = <<Float64(900)>>
    /\ parsed.records[2].shape.content.ms = <<Float64(1)>>

(***************************************************************************)
(* C22  sentinels and anchors in the payload                               *)
(***************************************************************************)

\* how each point of the payload is emitted, in order: as a pair of 12-bit
\* values or as a pair of 6-bit deltas; the sentinels are passed over
RECURSIVE Emitted(_, _)
Emitted(fields, k) ==
    IF k > Len(fields) THEN <<>>
    ELSE IF fields[k].w = 12
    THEN IF fields[k].val = -2048 THEN Emitted(fields, k + 1)
         ELSE <<"anchor">> \o Emitted(fields, k + 2)
    ELSE IF fields[k].val = -32 THEN Emitted(fields, k + 1)
         ELSE <<"delta">> \o Emitted(fields, k + 2)

\* the 12-bit sentinels among the fields
Sentinels(fields) == { k \in 1..Len(fields) : fields[k].w = 12 /\ fields[k].val = -2048 }

\* the part lengths of all records in stream order
StreamParts(m) == Flatten(RecordMetadata(m))

\* the place in the stream of the first point of every part that has points
PartFirsts(m) ==
    LET lens == StreamParts(m)
    IN  { SumSeq(SubSeq(lens, 1, p - 1)) + 1 : p \in { r \in 1..Len(lens) : lens[r] > 0 } }

\* C22 as stated: the payload holds one 12-bit sentinel per part of the
\* compressed records, and the first point of every part is emitted as a
\* 12-bit anchor.
C22_SentinelPerPart ==
    (pc = "compressed" /\ InRange(shp)) =>
        LET fields == PackedFields(shp)
        IN  /\ Cardinality(Sentinels(fields)) = Len(StreamParts(shp))
            /\ \A s \in PartFirsts(shp) : Emitted(fields, 1)[s] = "anchor"

\* C22 amended: for a model in range with at least one compressed point
\* the payload holds one 12-bit sentinel, as its last field, however many
\* parts there are; the first point of the stream is a 12-bit anchor, and a
\* later point, the first of a part or not, is an anchor exactly when one
\* of its 12-bit coordinates differs by more than 31 from the point before.
C22_OneSentinelAtEnd ==
    (pc = "compressed" /\ InRange(shp) /\ Len(Quantized(shp)) > 0) =>
        LET fields == PackedFields(shp)
            q == Quantized(shp)
            kinds == Emitted(fields, 1)
        IN  /\ Sentinels(fields) = {Len(fields)}
            /\ Len(kinds) = Len(q) \div 2
            /\ kinds[1] = "anchor"
            /\ \A p \in 2..Len(kinds) :
                  kinds[p] = "anchor" <=>
                      \/ Abs(q[2 * p - 1] - q[2 * p - 3]) > 31
                      \/ Abs(q[2 * p] - q[2 * p - 2]) > 31

\* two records, the first of two parts: three parts, one sentinel, and the
\* first point of the second part emitted as a delta
C22_Witness ==
    /\ pc = "compressed"
    /\ InRange(shp)
    /\ Len(shp.records) = 2
    /\ shp.records[1] = CatalogRecord(3, POLYGON, <<0, 1>>, 3, FALSE, FALSE)
    /\ shp.records[2] = CatalogRecord(2, POLYGON, <<0>>, 2, FALSE, FALSE)
    /\ shp.shapeType = POLYGON
    /\ StreamParts(shp) = <<1, 2, 2>>
    /\ Cardinality(Sentinels(PackedFields(shp))) = 1
    /\ SubSeq(Emitted(PackedFields(shp), 1), 1, 3) = <<"anchor", "delta", "delta">>

(***************************************************************************)
(* C23  the size of the payload buffer                                     *)
(***************************************************************************)

\* the bits of field k lie in bytes of the buffer
FieldInside(buf, fields, k) ==
    (FieldStart(fields, k) + fields[k].w - 1) \div 8 < Len(buf)

\* C23 as stated: the buffer storeDeltas6 returns, which compress copies
\* after the table, has 4 + ceil(b/8) bytes for the b bits of the fields
\* written, its first four bytes hold 32 + b, and every field written lies
\* inside it.
C23_PayloadFits ==
    pc = "compressed" =>
        LET written == deltaEncode6(Int16Stream(shp))
            fields == PackedFields(shp)
            b == FieldStart(fields, Len(fields) + 1) - 32
        IN  /\ SubSeq(PointPayload(zbuf), 1, Len(written)) = written
            /\ Len(written) = 4 + CeilDiv(b, 8)
            /\ GetUint32BE(written, 0) = 32 + b
            /\ \A k \in 1..Len(fields) : FieldInside(written, fields, k)

(***************************************************************************)
(* C24  progress of the record loop                                        *)
(***************************************************************************)

\* C24 as stated: every iteration of the record loop of parse, whatever
\* length the record header holds, leaves the cursor strictly further on.
C24_CursorAdvances ==
    [][(ppc = "loop" /\ Len(parsed'.records) > Len(parsed.records)) => cursor' > cursor]_vars

(***************************************************************************)
(* C25  sentinels and data in the encoder                                  *)
(***************************************************************************)

\* the spans deltaEncode6 hands to storeDeltas6, in order
AllSpans(m) == Flatten(EncodeState(Int16Stream(m)).polys)

\* span[0] and span[1] as storeDeltas6 passes them to setInt12: undefined
\* (NaN here) when the span is empty
Anchor(span) == <<ValueAt(span, 0), ValueAt(span, 1)>>

\* C25 as stated: every delta written is in [-31,31]; every value passed
\* to setInt12, anchor or sentinel, is in [-2048,2047]; a point after the
\* first is written as a delta pair exactly when both its 12-bit
\* coordinates are within 31 of the point before; and with coordinates in
\* range no anchor x is -2048.
C25_NoCollision ==
    pc = "compressed" =>
        LET spans == AllSpans(shp)
            q == Quantized(shp)
            kinds == Emitted(PackedFields(shp), 1)
        IN  /\ \A j \in 1..Len(spans) :
                  /\ \A k \in 3..Len(spans[j]) : spans[j][k] \in -31..31
                  /\ Anchor(spans[j])[1] \in -2048..2047
                  /\ Anchor(spans[j])[2] \in -2048..2047
            /\ InRange(shp) =>
                  /\ \A j \in 1..Len(spans) : Anchor(spans[j])[1] # -2048
                  /\ \A p \in 2..Len(kinds) :
                        kinds[p] = "delta" <=>
                            /\ Abs(q[2 * p - 1] - q[2 * p - 3]) <= 31
                            /\ Abs(q[2 * p] - q[2 * p - 2]) <= 31

(***************************************************************************)
(* C26  the first quantization stage                                       *)
(***************************************************************************)

\* the points compress visits, in stream order
StreamSource(m) ==
    Flatten([i \in 1..Len(m.records) |->
        LET js == PointIndices(m.records[i])
        IN  [k \in 1..Len(js) |-> m.records[i].points[js[k] + 1]]])

\* round(n / Scale): the nearest integer, a half going up
Rounded(n) == (2 * n + Scale) \div (2 * Scale)

\* C26 as stated: with coordinates in range, every value of the 16-bit
\* stream is the coordinate times 32767/180 rounded to the nearest integer.
C26_RoundsToNearest ==
    (pc = "compressed" /\ InRange(shp)) =>
        LET src == StreamSource(shp)
            stream == Int16Stream(shp)
        IN  \A p \in 1..Len(src) : \A a \in {1, 2} :
                stream[2 * (p - 1) + a] = Rounded(src[p][a])

\* C26 amended: with coordinates in range, every value of the 16-bit
\* stream is the coordinate times 32767/180 with its fraction dropped: it
\* has the sign of the coordinate or is 0, and its magnitude is the largest
\* integer not above that of the scaled coordinate.
C26_TruncatesTowardZero ==
    (pc = "compressed" /\ InRange(shp)) =>
        LET src == StreamSource(shp)
            stream == Int16Stream(shp)
        IN  /\ Len(stream) = 2 * Len(src) + 1
            /\ \A p \in 1..Len(src) : \A a \in {1, 2} :
                  LET n == src[p][a]
                      v == stream[2 * (p - 1) + a]
                  IN  /\ (n >= 0 => v >= 0) /\ (n <= 0 => v <= 0)
                      /\ Abs(v) * Scale <= Abs(n)
                      /\ Abs(n) < (Abs(v) + 1) * Scale

\* a point with a fraction of at least one half on both axes
C26_Witness ==
    /\ pc = "compressed"
    /\ InRange(shp)
    /\ Len(shp.records) = 1
    /\ shp.records[1].points = << <<17 * Scale + 1, -(32 * Scale - 1)>> >>
    /\ Int16Stream(shp) = <<17, -31, -32768>>
    /\ \/ Rounded(17 * Scale + 1) = 18
       \/ Rounded(-(32 * Scale - 1)) = -32

(***************************************************************************)
(* C27  a table that declares more points than the payload holds           *)
(***************************************************************************)

\* the buffer has its fixed fields, its table and the length of its payload
Decodable(buf) ==
    /\ Len(buf) >= 14
    /\ ReadTable(buf, 14, GetUint32LE(buf, 2), <<>>).ok
    /\ Len(PointPayload(buf)) >= 4

\* the points the table declares
DeclaredPoints(buf) == SumSeq(Flatten(PartTable(buf)))

\* the points the payload decodes to: the values that are no sentinel, in pairs
DecodedPoints(buf) ==
    Len(SelectSeq(deltaDecode6(PointPayload(buf)), LAMBDA v : v # -32768)) \div 2

\* C27 as stated: when the table declares more points than the payload
\* decodes to, decompress fails with the end-of-data error and returns no
\* model; and no point of a model it returns has the decoded sentinel
\* -2048 * 16 as a coordinate.
C27_ShortPayloadFails ==
    /\ (Finished /\ SupportedVersion(U8Get(zbuf, 0)) /\ Decodable(zbuf)
            /\ DeclaredPoints(zbuf) > DecodedPoints(zbuf)) => dec = Failure("eof")
    /\ pc = "done" =>
            \A i \in 1..Len(dec.records) : \A k \in 1..Len(dec.records[i].points) :
                /\ dec.records[i].points[k][1] # -32768 * Scale
                /\ dec.records[i].points[k][2] # -32768 * Scale

(***************************************************************************)
(* C28  a decompressed model through the writer and the parser             *)
(***************************************************************************)

\* a record parse returned is record rec of the decompressed model
SameRecord(got, rec) ==
    /\ got.number = rec.number
    /\ got.length = rec.length
    /\ got.shape.type = rec.type
    /\ got.shape.content.parts = rec.parts
    /\ got.shape.content.points =
            [k \in 1..Len(rec.points) |->
                <<DegreesFloat64(rec.points[k][1]), DegreesFloat64(rec.points[k][2])>>]

\* C28 as stated: for a decompressed model written by writeShp, the cursor
\* of the writer moves by 8 + 2 * length over every record, and parse of
\* the container returns as many records, each with the number, length,
\* shape type, parts and points of the decompressed record.
C28_WriterRoundTrip ==
    /\ pc = "done" =>
            \A i \in 1..Len(dec.records) :
                WriterOffset(dec, i + 1) - WriterOffset(dec, i) = 8 + 2 * dec.records[i].length
    /\ (pc = "done" /\ ppc \notin {"idle", "start", "loop"}) =>
            /\ ppc = "returned"
            /\ Len(parsed.records) = Len(dec.records)
            /\ \A i \in 1..Len(dec.records) : SameRecord(parsed.records[i], dec.records[i])

(***************************************************************************)
(* C29  part offsets rebuilt from the part-length table                    *)
(***************************************************************************)

\* the parts of a record start at point 0 and follow each other up to the
\* last point
Contiguous(rec) ==
    /\ FirstPartAtZero(rec)
    /\ NonDecreasing(rec.parts)
    /\ rec.parts[Len(rec.parts)] <= Len(rec.points)

\* C29: in every record of decompress that is not Null, parts has one entry
\* per length read from the table for that record, the first entry is 0 and
\* every further entry is the entry before it plus the length before it;
\* parts is non-decreasing and the last part ends at the point count; and
\* when the parts of the record of M are contiguous from 0 they come back
\* entry by entry.
C29_PartsAreRunningSums ==
    pc = "done" =>
        \A i \in 1..Len(dec.records) :
            LET rec == dec.records[i]
                lens == PartTable(zbuf)[i]
                n == Len(rec.parts)
            IN  rec.content =>
                    /\ n = Len(lens)
                    /\ n > 0
                    /\ rec.parts[1] = 0
                    /\ \A k \in 2..n : rec.parts[k] = rec.parts[k - 1] + lens[k - 1]
                    /\ NonDecreasing(rec.parts)
                    /\ rec.parts[n] + lens[n] = Len(rec.points)
                    /\ Contiguous(shp.records[i]) => rec.parts = shp.records[i].parts

\* a record of three points in two parts came back with the parts 0 and 1
\* it had, and a record whose first part started at point 1 with a part 0
C29_Witness ==
    /\ pc = "done"
    /\ \E i \in 1..Len(dec.records) :
          /\ dec.records[i].content
          /\ Contiguous(shp.records[i])
          /\ PartTable(zbuf)[i] = <<1, 2>>
          /\ dec.records[i].parts = <<0, 1>>
          /\ Len(dec.records[i].points) = 3
    /\ \E i \in 1..Len(dec.records) :
          /\ dec.records[i].content
          /\ shp.records[i].parts = <<1>>
          /\ dec.records[i].parts = <<0>>

(***************************************************************************)
(* C30  where the z and m arrays are written and where they are read       *)
(***************************************************************************)

\* the end of the part-length table of a buffer
TableEnd(buf) == ReadTable(buf, 14, GetUint32LE(buf, 2), <<>>).offset

\* the offset decompress reads the first trailing array from
ReadStart(buf) == TableEnd(buf) + CeilDiv(GetUint32BE(PointPayload(buf), 0), 8)

\* the offset compress wrote it at: the end of the point payload
WriteStart(buf, m) == TableEnd(buf) + Len(deltaEncode6(Int16Stream(m)))

\* the z and the m values compress wrote for m
WrittenZs(m) ==
    IF IsZType(EffectiveType(m))
    THEN Flatten([i \in 1..Len(m.records) |-> RecordZs(m.records[i])]) ELSE <<>>

WrittenMs(m) ==
    IF IsMType(EffectiveType(m))
    THEN Flatten([i \in 1..Len(m.records) |-> RecordMs(m.records[i])]) ELSE <<>>

\* the windows of the trailing arrays coincide, and each array holds one
\* value per point of the table
WindowsCoincide(buf, m) ==
    (IsMType(EffectiveType(m))) =>
        /\ ReadStart(buf) = WriteStart(buf, m)
        /\ IsZType(EffectiveType(m)) => Len(WrittenZs(m)) = DeclaredPoints(buf)
        /\ Len(WrittenMs(m)) = DeclaredPoints(buf)
        /\ Len(buf) = WriteStart(buf, m) + 4 * (Len(WrittenZs(m)) + Len(WrittenMs(m)))

\* C30 as stated: for every model M of a Z or M type, decompress starts
\* reading the trailing arrays of compress(M) at the offset compress wrote
\* them at, and each array compress wrote holds one float32 per point counted
\* in the part-length table, also when records carry no z or m array and
\* when the model has no points.
C30_WindowsCoincide == pc = "compressed" => WindowsCoincide(zbuf, shp)
====
